---------------------------- MODULE Spec2Model ----------------------------
(***************************************************************************)
(* Exam-paper generator: the Criteria Extractor (parsers/prompt_parser.py)  *)
(* and the Quota-Constrained Selector (services/question_filter.py,         *)
(* services/exam_generator.py).                                             *)
(*                                                                          *)
(* A prompt is a sequence of lexemes (words, numbers, the comma).  A regular *)
(* expression of the source is modelled by the lexeme sequences it matches,  *)
(* for prompts written with single blanks and the comma attached to the      *)
(* word before it.  An optional value (Python None) is the empty sequence;   *)
(* a present integer n is <<n>>, a present string is its lexeme sequence.    *)
(***************************************************************************)
EXTENDS Integers, Sequences, FiniteSets, TLC

None == <<>>
Some(x) == <<x>>
IsNone(v) == v = <<>>
Val(v) == v[1]

(***************************************************************************)
(* Lexemes.  NumLex are the digit strings; IntOf is int() on them.          *)
(***************************************************************************)
NumLex == {"0", "1", "2", "3", "4", "5", "7", "8", "10", "12", "120"}

IntOf(s) ==
    CASE s = "0" -> 0 [] s = "1" -> 1 [] s = "2" -> 2 [] s = "3" -> 3
      [] s = "4" -> 4 [] s = "5" -> 5 [] s = "7" -> 7 [] s = "10" -> 10
      [] s = "8" -> 8 [] s = "12" -> 12 [] s = "120" -> 120

IsNum(t) == t \in NumLex

\* Lower with the call to lower() forgotten.
Lower_Identity(t) == t

\* str.lower() on a lexeme: only the capitalised lexemes change.
Lower(t) ==
    CASE t = "Generate" -> "generate"
      [] t = "Big Data" -> "big data"
      [] t = "MCQs" -> "mcqs"
      [] t = "MCQ" -> "mcq"
      [] t = "Big Data Analytics" -> "big data analytics"
      [] t = "TF" -> "tf"
      [] OTHER -> t

LowerSeq(p) == [i \in 1..Len(p) |-> Lower(p[i])]

(***************************************************************************)
(* parse_multiple_question_types                                            *)
(***************************************************************************)
\* Lexemes the type alternation of the primary pattern matches in full.
PrimaryTypeLex == {"mcq", "mcqs", "msqs", "multiple choice", "true false", "fill ups"}

\* Lexemes the type alternation of the two fallback patterns matches.
FallbackTypeLex == {"mcq", "mcqs", "msqs", "true false", "fill ups"}

\* type_mappings.get(s, s)
type_mappings(s) ==
    CASE s \in {"mcq", "mcqs", "multiple choice"} -> "mcq"
      [] s \in {"msq", "msqs"} -> "msq"
      [] s = "true false" -> "tf"
      [] s = "fill ups" -> "fill"
      [] s = "essay" -> "descriptive"
      [] OTHER -> s

\* Terminator without the end-of-string alternative.
Terminator_NoEndOfString(p, j) ==
    \/ j <= Len(p) /\ p[j] = ","
    \/ j < Len(p) /\ p[j] = "and" /\ p[j + 1] # ","

\* (?:\s*[,;]|\s+and\s+|\s*$) at position j of p.
Terminator(p, j) ==
    \/ j > Len(p)
    \/ j <= Len(p) /\ p[j] = ","
    \/ j < Len(p) /\ p[j] = "and" /\ p[j + 1] # ","

\* The primary pattern matches with its count at position i.
PrimaryMatchAt(p, i) ==
    /\ i + 1 <= Len(p)
    /\ IsNum(p[i])
    /\ p[i + 1] \in PrimaryTypeLex
    /\ \/ Terminator(p, i + 2)
       \/ i + 2 <= Len(p) /\ p[i + 2] = "questions" /\ Terminator(p, i + 3)

\* A breakdown is a dict in insertion order: a sequence of [t, c] entries.
HasType(bd, ty) == \E k \in 1..Len(bd) : bd[k].t = ty

\* Lines 50-55: add a new type, or add the count to the existing entry.
AccumulateCount(bd, ty, c) ==
    IF HasType(bd, ty)
    THEN [k \in 1..Len(bd) |-> IF bd[k].t = ty THEN [t |-> ty, c |-> bd[k].c + c] ELSE bd[k]]
    ELSE Append(bd, [t |-> ty, c |-> c])

\* Lines 79-80: add a type only when it is not present yet.
AddIfAbsent(bd, ty, c) ==
    IF HasType(bd, ty) THEN bd ELSE Append(bd, [t |-> ty, c |-> c])

RECURSIVE PrimaryScan(_, _, _)
PrimaryScan(p, i, bd) ==
    IF i > Len(p) THEN bd
    ELSE IF PrimaryMatchAt(p, i)
         THEN PrimaryScan(p, i + 2, AccumulateCount(bd, type_mappings(p[i + 1]), IntOf(p[i])))
         ELSE PrimaryScan(p, i + 1, bd)

\* fallback_patterns[0]: with <count> <type>
WithMatchAt(p, i) ==
    /\ i + 2 <= Len(p)
    /\ p[i] = "with"
    /\ IsNum(p[i + 1])
    /\ p[i + 2] \in FallbackTypeLex

RECURSIVE WithScan(_, _, _)
WithScan(p, i, bd) ==
    IF i > Len(p) THEN bd
    ELSE IF WithMatchAt(p, i)
         THEN WithScan(p, i + 3, AddIfAbsent(bd, type_mappings(p[i + 2]), IntOf(p[i + 1])))
         ELSE WithScan(p, i + 1, bd)

\* fallback_patterns[1]: <count> <type>
BareMatchAt(p, i) ==
    /\ i + 1 <= Len(p)
    /\ IsNum(p[i])
    /\ p[i + 1] \in FallbackTypeLex

RECURSIVE BareScan(_, _, _)
BareScan(p, i, bd) ==
    IF i > Len(p) THEN bd
    ELSE IF BareMatchAt(p, i)
         THEN BareScan(p, i + 2, AddIfAbsent(bd, type_mappings(p[i + 1]), IntOf(p[i])))
         ELSE BareScan(p, i + 1, bd)

parse_multiple_question_types(p) ==
    LET primary == PrimaryScan(p, 1, <<>>)
    IN  IF primary # <<>> THEN primary
        ELSE BareScan(p, 1, WithScan(p, 1, <<>>))

RECURSIVE SumCounts(_)
SumCounts(bd) == IF bd = <<>> THEN 0 ELSE bd[1].c + SumCounts(Tail(bd))

(***************************************************************************)
(* parse_prompt_with_hybrid: the regex cascade (lines 108-195)              *)
(***************************************************************************)
\* First position >= i of p where Match(p, i) holds, 0 when there is none:
\* re.search returns the leftmost match.
FirstFrom(p, i, Match(_, _)) ==
    LET hits == {j \in i..Len(p) : Match(p, j)}
    IN  IF hits = {} THEN 0 ELSE CHOOSE j \in hits : \A k \in hits : j <= k

\* End (exclusive) of the lazy capture ([^,\n]+?)(?:\s*[,\n]|$) that starts at i:
\* the next comma, or the end of the prompt.
RECURSIVE CaptureEnd(_, _)
CaptureEnd(p, i) ==
    IF i > Len(p) \/ p[i] = "," THEN i ELSE CaptureEnd(p, i + 1)

\* <word>\s*[:=]?\s*([^,\n]+?)(?:\s*[,\n]|$): the word followed by at least one
\* lexeme that is no comma; group(1) runs to the next comma or the end.
CaptureAfter(p, word) ==
    LET At(q, i) == q[i] = word /\ i < Len(q) /\ q[i + 1] # ","
        i == FirstFrom(p, 1, At)
    IN  IF i = 0 THEN None ELSE SubSeq(p, i + 1, CaptureEnd(p, i + 1) - 1)

\* patterns["question_type"][2]: a whole-word type name, with a following
\* "questions"; the pattern has no group, so the value is group(0).
CascadeTypeLex == {"mcq", "multiple choice", "true false"}

BareTypeMatch(p) ==
    LET At(q, i) == q[i] \in CascadeTypeLex
        i == FirstFrom(p, 1, At)
    IN  IF i = 0 THEN None
        ELSE IF i < Len(p) /\ p[i + 1] = "questions" THEN <<p[i], "questions">>
        ELSE <<p[i]>>

\* patterns["question_type"]: "type:" declarations first (patterns 0 and 1 capture
\* the same group), then the bare type names.  Pattern 3 needs the word "type"
\* followed by a blank, which no lexeme provides.
cascade_question_type(p) ==
    LET declared == CaptureAfter(p, "type:")
    IN  IF declared # None THEN declared ELSE BareTypeMatch(p)

\* patterns["num_questions"][0]: (\d+)\s*(?:questions?).  Pattern 1 matches the
\* same places; patterns 2 and 3 need "questions:" or "total".
cascade_num_questions(p) ==
    LET At(q, i) == IsNum(q[i]) /\ i < Len(q) /\ q[i + 1] = "questions"
        i == FirstFrom(p, 1, At)
    IN  IF i = 0 THEN None ELSE Some(IntOf(p[i]))

\* (?:positive\s*)?marks? starting at i: the position after it, 0 when no match.
MarksEnd(p, i) ==
    IF i <= Len(p) /\ p[i] = "marks" THEN i + 1
    ELSE IF i < Len(p) /\ p[i] = "positive" /\ p[i + 1] = "marks" THEN i + 2
    ELSE 0

\* patterns["max_marks"]: [0] maximum <n> [positive] marks, then
\* [3] <n> [positive] marks maximum.  Patterns 1, 2 and 4 need "max marks",
\* "total" or "marks:".
cascade_max_marks(p) ==
    LET At0(q, i) == q[i] = "maximum" /\ i < Len(q) /\ IsNum(q[i + 1]) /\ MarksEnd(q, i + 2) # 0
        At3(q, i) == /\ IsNum(q[i])
                     /\ MarksEnd(q, i + 1) # 0
                     /\ MarksEnd(q, i + 1) <= Len(q)
                     /\ q[MarksEnd(q, i + 1)] = "maximum"
        i0 == FirstFrom(p, 1, At0)
        i3 == FirstFrom(p, 1, At3)
    IN  IF i0 # 0 THEN Some(IntOf(p[i0 + 1]))
        ELSE IF i3 # 0 THEN Some(IntOf(p[i3]))
        ELSE None

\* patterns["positive_marks"]: [0] <n> positive marks, [1] positive marks <n>.
cascade_positive_marks(p) ==
    LET At0(q, i) == IsNum(q[i]) /\ i + 2 <= Len(q) /\ q[i + 1] = "positive" /\ q[i + 2] = "marks"
        At1(q, i) == q[i] = "positive" /\ i + 2 <= Len(q) /\ q[i + 1] = "marks" /\ IsNum(q[i + 2])
        i0 == FirstFrom(p, 1, At0)
        i1 == FirstFrom(p, 1, At1)
    IN  IF i0 # 0 THEN Some(IntOf(p[i0]))
        ELSE IF i1 # 0 THEN Some(IntOf(p[i1 + 2]))
        ELSE None

\* patterns["difficulty"]: the declaration, then [2] a bare difficulty word found
\* as a substring ("difficulty" itself contains "difficult"), with a following
\* "difficulty" or "questions".
cascade_difficulty(p) ==
    LET declared == CaptureAfter(p, "difficulty")
        At(q, i) == q[i] \in {"difficulty", "easy"}
        i == FirstFrom(p, 1, At)
    IN  IF declared # None THEN declared
        ELSE IF i = 0 THEN None
        ELSE IF p[i] = "difficulty" THEN <<"difficult">>
        ELSE IF i < Len(p) /\ p[i + 1] \in {"difficulty", "questions"} THEN <<p[i], p[i + 1]>>
        ELSE <<p[i]>>

\* patterns["bloom_level"]: [1] the declaration, then [2] a bare bloom verb with a
\* following "questions".
cascade_bloom_level(p) ==
    LET declared == CaptureAfter(p, "bloom")
        At(q, i) == q[i] = "apply"
        i == FirstFrom(p, 1, At)
    IN  IF declared # None THEN declared
        ELSE IF i = 0 THEN None
        ELSE IF i < Len(p) /\ p[i + 1] = "questions" THEN <<p[i], "questions">>
        ELSE <<p[i]>>

\* Lines 170-195: a matched field is assigned (overwriting the value it had), an
\* unmatched one keeps its value.  No lexeme contains "batch".
OrElse(v, old) == IF v # None THEN v ELSE old

apply_cascade(c, p) ==
    [c EXCEPT !.question_type = OrElse(cascade_question_type(p), @),
              !.num_questions = OrElse(cascade_num_questions(p), @),
              !.max_marks = OrElse(cascade_max_marks(p), @),
              !.subject = OrElse(CaptureAfter(p, "subject"), @),
              !.chapter = OrElse(CaptureAfter(p, "chapter"), @),
              !.difficulty = OrElse(cascade_difficulty(p), @),
              !.bloom_level = OrElse(cascade_bloom_level(p), @),
              !.positive_marks = OrElse(cascade_positive_marks(p), @)]

(***************************************************************************)
(* The keyword scan (lines 197-259)                                         *)
(***************************************************************************)
\* question_type_keywords, in dict order.
KeywordOrder == <<"fill", "mcq", "msq", "tf", "descriptive", "numerical", "match", "comprehension">>

\* The canonical types whose phrase list has a phrase contained in lexeme t.
KeywordTypesOf(t) ==
    CASE t \in {"mcq", "mcqs", "multiple choice"} -> {"mcq"}
      [] t = "msqs" -> {"msq"}
      [] t = "true false" -> {"tf"}
      [] t = "essay" -> {"descriptive"}
      [] t = "fill ups" -> {"fill"}
      [] OTHER -> {}

\* any(keyword in normalized_prompt for keyword in question_type_keywords[ty])
KeywordHit(ty, p) == \E i \in 1..Len(p) : ty \in KeywordTypesOf(p[i])

\* Lines 253-259.  The outer loop leaves as soon as question_type is not None,
\* whether this table entry or the cascade assigned it.
RECURSIVE keyword_scan(_, _, _)
keyword_scan(qt, p, k) ==
    IF k > Len(KeywordOrder) THEN qt
    ELSE LET qt2 == IF KeywordHit(KeywordOrder[k], p) THEN <<KeywordOrder[k]>> ELSE qt
         IN  IF qt2 # None THEN qt2 ELSE keyword_scan(qt2, p, k + 1)

(***************************************************************************)
(* value_mappings (lines 261-335): exact match on the whole value.         *)
(***************************************************************************)
\* The keys of value_mappings["question_type"], "difficulty" and "bloom_level"
\* that a value over the lexemes can equal, and the values they map to.
QuestionTypeKeys == {"mcq", "mcqs", "multiple choice", "msq", "msqs", "tf", "true false",
                     "fill", "fill ups", "descriptive", "essay"}

QuestionTypeValue(s) ==
    CASE s \in {"mcq", "mcqs", "multiple choice"} -> "mcq"
      [] s \in {"msq", "msqs"} -> "msq"
      [] s \in {"tf", "true false"} -> "tf"
      [] s \in {"fill", "fill ups"} -> "fill"
      [] s \in {"descriptive", "essay"} -> "descriptive"

DifficultyKeys == {"easy", "difficult", "hard"}

DifficultyValue(s) == CASE s = "easy" -> "easy" [] s \in {"difficult", "hard"} -> "hard"

BloomKeys == {"apply"}

BloomValue(s) == "apply"

\* Lines 331-335: a value that equals a key is replaced, any other is kept.
map_question_type(v) ==
    IF Len(v) = 1 /\ v[1] \in QuestionTypeKeys THEN <<QuestionTypeValue(v[1])>> ELSE v

map_difficulty(v) ==
    IF Len(v) = 1 /\ v[1] \in DifficultyKeys THEN <<DifficultyValue(v[1])>> ELSE v

map_bloom_level(v) ==
    IF Len(v) = 1 /\ v[1] \in BloomKeys THEN <<BloomValue(v[1])>> ELSE v

apply_value_mappings(c) ==
    [c EXCEPT !.difficulty = map_difficulty(@),
              !.bloom_level = map_bloom_level(@),
              !.question_type = map_question_type(@)]

(***************************************************************************)
(* The model fallback (lines 351-451)                                       *)
(***************************************************************************)
CriticalFields == {"num_questions", "max_marks", "subject", "chapter", "question_type"}

\* Line 352.
missing_fields(c) == {f \in CriticalFields : c[f] = None}

\* What llm_patterns finds in the model's response: per field the text of
\* group(1), or "NOMATCH" when the field's pattern does not match.
LlmFields == {"batch_name", "num_questions", "max_marks", "subject", "chapter",
              "question_type", "difficulty", "bloom_level"}

NoMatchResponse == [f \in LlmFields |-> "NOMATCH"]

LlmResponses ==
    { NoMatchResponse,
      [f \in LlmFields |-> "NULL"],
      [NoMatchResponse EXCEPT !.num_questions = "4"],
      [NoMatchResponse EXCEPT !.max_marks = "7", !.question_type = "MCQ"],
      [NoMatchResponse EXCEPT !.num_questions = "4", !.max_marks = "7",
                              !.subject = "Big Data", !.chapter = "null",
                              !.difficulty = "easy"] }

\* value.upper() in ['NULL', 'NONE', 'N/A', 'NOT SPECIFIED', '']
IsNullWord(v) == v \in {"NULL", "null", "None", "NONE", "N/A", ""}

\* Lines 429-446: the value a matched, non-null response text gives a field.
LlmValue(f, v) ==
    CASE f \in {"num_questions", "max_marks"} -> Some(IntOf(v))
      [] f = "question_type" ->
            IF Lower(v) \in QuestionTypeKeys THEN <<QuestionTypeValue(Lower(v))>> ELSE <<v>>
      [] f = "difficulty" ->
            IF Lower(v) \in DifficultyKeys THEN <<DifficultyValue(Lower(v))>> ELSE <<v>>
      [] f = "bloom_level" ->
            IF Lower(v) \in BloomKeys THEN <<BloomValue(Lower(v))>> ELSE <<v>>
      [] OTHER -> <<v>>

\* FillField without the test "criteria[field] is None".
FillField_Overwrites(c, r, f) ==
    IF r[f] # "NOMATCH" /\ ~IsNullWord(r[f]) THEN LlmValue(f, r[f]) ELSE c[f]

\* Lines 419-446: only a field that is still None is looked at.
FillField(c, r, f) ==
    IF c[f] = None /\ r[f] # "NOMATCH" /\ ~IsNullWord(r[f]) THEN LlmValue(f, r[f]) ELSE c[f]

fill_from_llm(c, r) ==
    [f \in DOMAIN c |-> IF f \in LlmFields THEN FillField(c, r, f) ELSE c[f]]

(***************************************************************************)
(* The positional fallback and the validation (lines 453-468)               *)
(***************************************************************************)
\* re.findall(r'\b(\d+)\b', user_prompt)
numbers(p) == SelectSeq(p, IsNum)

\* positional_fallback assigning the two integers whether or not the fields are
\* resolved.
positional_fallback_Overwrites(c, p) ==
    IF (c.num_questions = None \/ c.max_marks = None) /\ Len(numbers(p)) >= 2
    THEN [c EXCEPT !.num_questions = Some(IntOf(numbers(p)[1])),
                   !.max_marks = Some(IntOf(numbers(p)[2]))]
    ELSE c

positional_fallback(c, p) ==
    IF (c.num_questions = None \/ c.max_marks = None) /\ Len(numbers(p)) >= 2
    THEN [c EXCEPT !.num_questions = IF @ = None THEN Some(IntOf(numbers(p)[1])) ELSE @,
                   !.max_marks = IF @ = None THEN Some(IntOf(numbers(p)[2])) ELSE @]
    ELSE c

\* validation_fails raising only when both fields are missing.
validation_fails_BothMissing(c) == c.num_questions = None /\ c.max_marks = None

\* Line 465: the condition of the raise.
validation_fails(c) == c.num_questions = None \/ c.max_marks = None

(***************************************************************************)
(* The stages of parse_prompt_with_hybrid, in order                         *)
(***************************************************************************)
\* Lines 91-96 (organization_id is the default argument).
EmptyCriteria ==
    [num_questions |-> None, max_marks |-> None, subject |-> None, chapter |-> None,
     question_type |-> None, difficulty |-> None, positive_marks |-> None,
     bloom_level |-> None, question_types_breakdown |-> None, batch_name |-> None,
     organization_id |-> None]

\* Lines 100-106.
stage_multi_type(c, p) ==
    LET bd == parse_multiple_question_types(LowerSeq(p))
    IN  IF bd # <<>>
        THEN [c EXCEPT !.question_types_breakdown = bd, !.num_questions = Some(SumCounts(bd))]
        ELSE c

\* Lines 166-195.
stage_cascade(c, p) == apply_cascade(c, LowerSeq(p))

\* Lines 252-259.
stage_keywords(c, p) == [c EXCEPT !.question_type = keyword_scan(@, LowerSeq(p), 1)]

\* Lines 330-349 (batch_name is None until the model fallback: nothing to clean).
stage_mappings(c) == apply_value_mappings(c)

\* The criteria as they stand before the model fallback.
BeforeFallback(p) == stage_mappings(stage_keywords(stage_cascade(stage_multi_type(EmptyCriteria, p), p), p))

(***************************************************************************)
(* services/question_filter.py: exact and randomized subset selection.      *)
(* A question is a record; a selection is the sequence of the pool          *)
(* positions it takes, in increasing order (the order random.sample gives   *)
(* its items in is not modelled).                                           *)
(***************************************************************************)
\* sum([q.get('positive_marks', 0) for q in sample])
RECURSIVE MarksOf(_, _)
MarksOf(qs, sel) ==
    IF sel = <<>> THEN 0 ELSE qs[sel[1]].positive_marks + MarksOf(qs, Tail(sel))

Abs(x) == IF x < 0 THEN 0 - x ELSE x

Min(a, b) == IF a <= b THEN a ELSE b

\* The positions of set S in increasing order.
RECURSIVE Ascending(_)
Ascending(S) ==
    IF S = {} THEN <<>>
    ELSE LET m == CHOOSE x \in S : \A y \in S : x <= y
         IN  <<m>> \o Ascending(S \ {m})

\* The results random.sample(qs, k) can give.
Samples(qs, k) == {Ascending(S) : S \in {T \in SUBSET (1..Len(qs)) : Cardinality(T) = k}}

\* The limits of the exact regime (find_exact_subset_dp, line 122).
DpMaxPool == 50
DpMaxCount == 10
DpMaxTarget == 100

\* The attempt limits of find_balanced_subset_with_report (line 92).
MaxTries == 1000
TriesPerQuestion == 10

NotFound == [found |-> FALSE, ix |-> <<>>]

\* dp with take tried before skip.
RECURSIVE dp_TakeFirst(_, _, _, _)
dp_TakeFirst(qs, idx, remaining_questions, remaining_marks) ==
    IF remaining_questions = 0 /\ remaining_marks = 0 THEN [found |-> TRUE, ix |-> <<>>]
    ELSE IF idx > Len(qs) \/ remaining_questions <= 0 \/ remaining_marks < 0 THEN NotFound
    ELSE LET take == dp_TakeFirst(qs, idx + 1, remaining_questions - 1,
                                  remaining_marks - qs[idx].positive_marks)
         IN  IF take.found THEN [found |-> TRUE, ix |-> <<idx>> \o take.ix]
             ELSE dp_TakeFirst(qs, idx + 1, remaining_questions, remaining_marks)

\* dp(idx, remaining_questions, remaining_marks), lines 130-147; positions count
\* from 1.  found = FALSE is the None result.
RECURSIVE dp(_, _, _, _)
dp(qs, idx, remaining_questions, remaining_marks) ==
    IF remaining_questions = 0 /\ remaining_marks = 0 THEN [found |-> TRUE, ix |-> <<>>]
    ELSE IF idx > Len(qs) \/ remaining_questions <= 0 \/ remaining_marks < 0 THEN NotFound
    ELSE LET skip == dp(qs, idx + 1, remaining_questions, remaining_marks)
         IN  IF skip.found THEN skip
             ELSE LET take == dp(qs, idx + 1, remaining_questions - 1,
                                 remaining_marks - qs[idx].positive_marks)
                  IN  IF take.found THEN [found |-> TRUE, ix |-> <<idx>> \o take.ix]
                      ELSE NotFound

\* find_exact_subset_dp without the bound on the target.
find_exact_subset_dp_AnyTarget(qs, num_questions, target_marks) ==
    LET r == dp(qs, 1, num_questions, target_marks)
    IN  IF r.found THEN r.ix ELSE <<>>

\* Lines 116-156.
find_exact_subset_dp(qs, num_questions, target_marks) ==
    IF Len(qs) > DpMaxPool \/ num_questions > DpMaxCount \/ target_marks > DpMaxTarget
    THEN <<>>
    ELSE LET r == dp(qs, 1, num_questions, target_marks)
         IN  IF r.found THEN r.ix ELSE <<>>

\* Python truth of an optional integer: None and 0 are false.
Truthy(v) == v # None /\ Val(v) # 0

\* Lines 83-86: the result of the exact regime, <<>> when it is not tried or
\* finds nothing.
exact_regime(qs, num_questions, max_marks) ==
    IF Len(qs) <= DpMaxPool /\ num_questions <= DpMaxCount
    THEN find_exact_subset_dp(qs, num_questions, max_marks)
    ELSE <<>>

\* max_tries with one more try and no cap.
max_tries_OneMore(qs) == Len(qs) * TriesPerQuestion + 1

\* Line 92.
max_tries(qs) == Min(MaxTries, Len(qs) * TriesPerQuestion)

\* Improves taking every sample, better or not.
Improves_Always(qs, best, d, target) == TRUE

\* best_diff, float('inf') being larger than every difference: whether a sample
\* with difference d replaces best (line 98).
Improves(qs, best, d, target) ==
    best = None \/ d < Abs(MarksOf(qs, Val(best)) - target)

\* A line of the warnings list: line 109.
InexactWarning(target, actual, diff) ==
    [kind |-> "inexact", target |-> target, actual |-> actual, diff |-> diff]

(***************************************************************************)
(* models/filtering_report.py                                               *)
(***************************************************************************)
\* FilteringReport.__init__
FilteringReport ==
    [steps |-> <<>>, warnings |-> <<>>, suggestions |-> <<>>, final_count |-> 0,
     initial_count |-> 0]

\* add_step recording the size of the pool as the count before every step.
add_step_FromPool(r, description, before, after) ==
    [r EXCEPT !.steps = Append(@, [description |-> description,
                                   before |-> r.initial_count, after |-> after])]

add_step(r, description, before, after) ==
    [r EXCEPT !.steps = Append(@, [description |-> description, before |-> before,
                                   after |-> after])]

add_warning(r, w) == [r EXCEPT !.warnings = Append(@, w)]

add_suggestion(r, sg) == [r EXCEPT !.suggestions = Append(@, sg)]

set_initial_count(r, n) == [r EXCEPT !.initial_count = n]

set_final_count(r, n) == [r EXCEPT !.final_count = n]

\* The lines of the text that show the items of a list, one line an item.
RECURSIVE LinesOf(_, _)
LinesOf(kind, items) ==
    IF items = <<>> THEN <<>>
    ELSE <<[line |-> kind, item |-> Head(items)]>> \o LinesOf(kind, Tail(items))

Heading(title) == [line |-> "heading", item |-> title]

\* generate_report, lines 37-66: the text as the sequence of its lines.  The
\* final count is written in the block of the steps (lines 45-51).
generate_report(r) ==
    <<Heading("FILTERING PROCESS REPORT"), [line |-> "initial", item |-> r.initial_count]>>
        \o (IF r.steps # <<>>
            THEN <<Heading("Step-by-step filtering")>> \o LinesOf("step", r.steps)
                     \o <<[line |-> "final", item |-> r.final_count]>>
            ELSE <<>>)
        \o (IF r.warnings # <<>>
            THEN <<Heading("WARNINGS")>> \o LinesOf("warning", r.warnings)
            ELSE <<>>)
        \o (IF r.suggestions # <<>>
            THEN <<Heading("SUGGESTIONS")>> \o LinesOf("suggestion", r.suggestions)
            ELSE <<>>)
        \o <<Heading("end")>>

(***************************************************************************)
(* Questions as the storage supplies them.  A column of a row holds a       *)
(* string or NULL (Python None), positive_marks an integer.                 *)
(***************************************************************************)
Null == "<NULL>"

\* str(x).lower() of a column value.
StrLower(x) == IF x = Null THEN "none" ELSE Lower(x)

\* "w in s" for a lower-case criteria value w (a sequence of lexemes) and a
\* lower-case column text s: among the texts of the model the only proper
\* containment is that of "big data" in "big data analytics".
Within(w, s) ==
    /\ Len(w) = 1
    /\ \/ Lower(w[1]) = s
       \/ Lower(w[1]) = "big data" /\ s = "big data analytics"

\* "x.lower() == w.lower()" for a column value x that is a string.
SameText(w, x) == Len(w) = 1 /\ Lower(w[1]) = Lower(x)

\* filter_fields of question_filter.py (lines 13 and 38).
filter_fields == <<"subject", "chapter", "question_type", "difficulty", "bloom_level",
                   "positive_marks">>

\* The fields of the criteria that hold a string when they are set.
IsStringField(f) == f # "positive_marks"

\* Lines 21-26: whether question q passes the filter of field f.
Passes(q, c, f) ==
    IF IsStringField(f) THEN Within(c[f], StrLower(q[f])) ELSE q[f] = Val(c[f])

\* Keep keeping every question.
Keep_All(qs, c, f) == qs

Keep(qs, c, f) == LET Test(q) == Passes(q, c, f) IN SelectSeq(qs, Test)

\* Lines 17-31, from field number i on: the list left and the report so far.
RECURSIVE filter_from(_, _, _, _)
filter_from(filtered, c, i, r) ==
    IF i > Len(filter_fields) THEN [filtered |-> filtered, report |-> r]
    ELSE LET f == filter_fields[i]
         IN  IF c[f] = None THEN filter_from(filtered, c, i + 1, r)
             ELSE LET kept == Keep(filtered, c, f)
                  IN  filter_from(kept, c, i + 1,
                                  add_step(r, [prefix |-> "", field |-> f, value |-> c[f]],
                                           Len(filtered), Len(kept)))

\* Lines 7-33.
filter_questions_with_report(questions, c) ==
    filter_from(questions, c, 1, set_initial_count(FilteringReport, Len(questions)))

\* Lines 46-49 with equality in place of containment; .lower() of a None column
\* raises AttributeError.
RaisesOn(qs, c, f) == IsStringField(f) /\ \E i \in 1..Len(qs) : qs[i][f] = Null

Equal(q, c, f) == IF IsStringField(f) THEN SameText(c[f], q[f]) ELSE q[f] = Val(c[f])

KeepEqual(qs, c, f) == LET Test(q) == Equal(q, c, f) IN SelectSeq(qs, Test)

\* Lines 43-49 for the dropped field, from other field number j on: the list
\* left, or raised.
RECURSIVE relax_from(_, _, _, _)
relax_from(temp_filtered, c, field, j) ==
    IF j > Len(filter_fields) THEN [raised |-> FALSE, list |-> temp_filtered]
    ELSE LET other_field == filter_fields[j]
         IN  IF other_field = field \/ c[other_field] = None
             THEN relax_from(temp_filtered, c, field, j + 1)
             ELSE IF RaisesOn(temp_filtered, c, other_field)
             THEN [raised |-> TRUE, list |-> <<>>]
             ELSE relax_from(KeepEqual(temp_filtered, c, other_field), c, field, j + 1)

\* Lines 40-53, from field number i on.
RECURSIVE suggest_from(_, _, _, _)
suggest_from(all_qs, c, i, suggestions) ==
    IF i > Len(filter_fields) THEN [raised |-> FALSE, suggestions |-> suggestions]
    ELSE LET field == filter_fields[i]
         IN  IF c[field] = None THEN suggest_from(all_qs, c, i + 1, suggestions)
             ELSE LET temp == relax_from(all_qs, c, field, 1)
                  IN  IF temp.raised THEN [raised |-> TRUE, suggestions |-> <<>>]
                      ELSE suggest_from(all_qs, c, i + 1,
                               Append(suggestions, [field |-> field, value |-> c[field],
                                                    count |-> Len(temp.list)]))

\* Lines 35-55.
suggest_relaxed_criteria_with_report(all_qs, c) == suggest_from(all_qs, c, 1, <<>>)

\* The warnings of services/exam_generator.py.
NoQuestionsWarning == [kind |-> "no questions in database"]
NotEnoughWarning(required, available) ==
    [kind |-> "not enough questions", required |-> required, available |-> available]
NoSubsetWarning == [kind |-> "cannot find questions"]
ErrorWarning == [kind |-> "error generating exam paper"]
NotEnoughOfTypeWarning(q_type, required, available) ==
    [kind |-> "not enough of type", q_type |-> q_type, required |-> required,
     available |-> available]
NothingSelectedWarning == [kind |-> "no questions selected for any type"]
MismatchWarning(target, actual) ==
    [kind |-> "total marks mismatch", target |-> target, actual |-> actual]

\* report.warnings.extend(ws) and the like.
RECURSIVE add_warnings(_, _)
add_warnings(r, ws) ==
    IF ws = <<>> THEN r ELSE add_warnings(add_warning(r, Head(ws)), Tail(ws))

RECURSIVE add_suggestions(_, _)
add_suggestions(r, sgs) ==
    IF sgs = <<>> THEN r ELSE add_suggestions(add_suggestion(r, Head(sgs)), Tail(sgs))

(***************************************************************************)
(* Prompts                                                                  *)
(***************************************************************************)
MaxClauses == 3

Clauses ==
    { <<"2", "MCQs", ",">>,
      <<"3", "msqs">>,
      <<"1", "true false">>,
      <<"4", "multiple choice", ",">>,
      <<"and">>,
      <<"with">>,
      <<"10", "questions">>,
      <<"maximum", "5", "marks">>,
      <<"type:", "essay", ",">>,
      <<"7">>,
      <<"please">> }

RECURSIVE PromptsUpTo(_)
PromptsUpTo(n) ==
    IF n = 0 THEN {<<>>}
    ELSE LET shorter == PromptsUpTo(n - 1)
         IN  shorter \cup {q \o cl : q \in shorter, cl \in Clauses}

PromptMcqsMsqsTf == <<"2", "mcqs", ",", "2", "msqs", ",", "1", "true false">>

PromptBigData ==
    <<"Generate", "an", "exam", "paper", "with", "3", "mcqs", ",",
      "maximum", "10", "marks", ",", "subject", "Big Data">>

\* A prompt that states every critical field.
PromptComplete ==
    <<"5", "questions", ",", "maximum", "10", "marks", ",", "subject", "Big Data", ",",
      "chapter", "hdfs", ",", "type:", "essay">>

\* A prompt with two bare numbers and no stated count or marks.
PromptTwoNumbers == <<"exam", "12", "with", "8">>

\* Prompts that state a count or a marks total of 0.
PromptZero == <<"0", "questions", ",", "maximum", "0", "marks">>

PromptZeroCount == <<"0", "mcqs", ",", "1", "true false">>

Prompts ==
    PromptsUpTo(MaxClauses)
        \cup {PromptMcqsMsqsTf, PromptBigData, PromptComplete, PromptTwoNumbers,
              PromptZero, PromptZeroCount}

(***************************************************************************)
(* State                                                                    *)
(***************************************************************************)
VARIABLES
    prompt,         \* user_prompt
    criteria,       \* the criteria dict
    pc,             \* the stage or line the running function is at
    llm,            \* what the fallback model did in this call
    result,         \* of parse_prompt_with_hybrid: "pending", "returned" or "raised"
    earlier,        \* history: an earlier call of parse_prompt_with_hybrid has ended
    report_text,    \* the text the last call of generate_report returned
    pool,           \* filtered_questions, the list handed to the selector
    selection,      \* the list the selector returns, as pool positions
    warnings,       \* the warnings list of find_balanced_subset_with_report
    tries,          \* iterations of the sampling loop done so far
    best_selection, \* best_selection of the sampling loop (None or Some(sample))
    least_diff,     \* history: the least diff of the samples the loop has drawn
    drawn,          \* sample, the local of the sampling loop (None before the first draw)
    all_questions,  \* the rows debug_database_content returned
    report,         \* the report generate_exam_paper holds
    paper,          \* the text generate_exam_paper returns
    multi,          \* the locals of generate_multi_type_exam
    storage,        \* the questions table, and whether the client and the service are there
    cache,          \* the entries of the lru_cache of fetch_questions_from_supabase
    held            \* the rows another caller of the fetch holds (None: no such caller)

vars == <<prompt, criteria, pc, llm, result, earlier, report_text, pool, selection, warnings, tries, best_selection,
          least_diff, drawn,
          all_questions, report, paper, multi, storage, cache, held>>

extractVars == <<prompt, criteria, pc, llm, result, earlier, report_text>>
extractVarsButPc == <<prompt, criteria, llm, result, earlier, report_text>>
selectVars == <<pool, selection, warnings, tries, best_selection, least_diff, drawn>>
generateVars == <<all_questions, report, paper, multi>>
fetchVars == <<storage, cache, held>>

\* generate_multi_type_exam, lines 90-98: its locals before the first type
\* (target: target_marks_for_type as last computed, None before that).
MultiStart(n) ==
    [i |-> 1, all_selected_questions |-> <<>>, total_questions |-> 0,
     total_marks_used |-> 0, target |-> None,
     report |-> set_initial_count(FilteringReport, n)]

NotReturned == "<not returned>"

GenerateIdle ==
    /\ all_questions = <<>>
    /\ report = FilteringReport
    /\ paper = NotReturned
    /\ multi = MultiStart(0)

\* No table, an empty cache and no other caller: the fetch is not modelled.
FetchIdle ==
    /\ storage = [client |-> TRUE, up |-> TRUE, table |-> <<>>]
    /\ cache = <<>>
    /\ held = None

SelectIdle ==
    /\ pool = <<>>
    /\ selection = <<>>
    /\ warnings = <<>>
    /\ tries = 0
    /\ best_selection = None
    /\ least_diff = None
    /\ drawn = None

LlmIdle == [kind |-> "idle", resp |-> NoMatchResponse]

InitExtract ==
    /\ prompt \in Prompts
    /\ criteria = EmptyCriteria
    /\ pc = "multi_type"
    /\ llm = LlmIdle
    /\ result = "pending"
    /\ earlier = FALSE
    /\ report_text = None
    /\ SelectIdle
    /\ GenerateIdle
    /\ FetchIdle

MultiType ==
    /\ pc = "multi_type"
    /\ criteria' = stage_multi_type(criteria, prompt)
    /\ pc' = "cascade"
    /\ UNCHANGED <<prompt, llm, result, earlier, report_text>>
    /\ UNCHANGED <<fetchVars, selectVars, generateVars>>

Cascade ==
    /\ pc = "cascade"
    /\ criteria' = stage_cascade(criteria, prompt)
    /\ pc' = "keywords"
    /\ UNCHANGED <<prompt, llm, result, earlier, report_text>>
    /\ UNCHANGED <<fetchVars, selectVars, generateVars>>

Keywords ==
    /\ pc = "keywords"
    /\ criteria' = stage_keywords(criteria, prompt)
    /\ pc' = "mappings"
    /\ UNCHANGED <<prompt, llm, result, earlier, report_text>>
    /\ UNCHANGED <<fetchVars, selectVars, generateVars>>

Mappings ==
    /\ pc = "mappings"
    /\ criteria' = stage_mappings(criteria)
    /\ pc' = "fallback"
    /\ UNCHANGED <<prompt, llm, result, earlier, report_text>>
    /\ UNCHANGED <<fetchVars, selectVars, generateVars>>

\* Line 357: nothing is missing, the model is not consulted.
FallbackNotNeeded ==
    /\ pc = "fallback"
    /\ missing_fields(criteria) = {}
    /\ pc' = "positional"
    /\ UNCHANGED <<prompt, criteria, llm, result, earlier, report_text>>
    /\ UNCHANGED <<fetchVars, selectVars, generateVars>>

\* Line 357: get_tokenizer() or get_model() is None.
FallbackUnavailable ==
    /\ pc = "fallback"
    /\ missing_fields(criteria) # {}
    /\ llm' = [kind |-> "unavailable", resp |-> NoMatchResponse]
    /\ pc' = "positional"
    /\ UNCHANGED <<prompt, criteria, result, earlier, report_text>>
    /\ UNCHANGED <<fetchVars, selectVars, generateVars>>

\* Lines 450-451: the model call raises; the exception is swallowed.
FallbackRaises ==
    /\ pc = "fallback"
    /\ missing_fields(criteria) # {}
    /\ llm' = [kind |-> "raises", resp |-> NoMatchResponse]
    /\ pc' = "positional"
    /\ UNCHANGED <<prompt, criteria, result, earlier, report_text>>
    /\ UNCHANGED <<fetchVars, selectVars, generateVars>>

\* Lines 404-446: the model answers and its response is parsed.
FallbackResponds ==
    /\ pc = "fallback"
    /\ missing_fields(criteria) # {}
    /\ \E r \in LlmResponses :
        /\ llm' = [kind |-> "response", resp |-> r]
        /\ criteria' = fill_from_llm(criteria, r)
    /\ pc' = "positional"
    /\ UNCHANGED <<prompt, result, earlier, report_text>>
    /\ UNCHANGED <<fetchVars, selectVars, generateVars>>

Positional ==
    /\ pc = "positional"
    /\ criteria' = positional_fallback(criteria, prompt)
    /\ pc' = "validate"
    /\ UNCHANGED <<prompt, llm, result, earlier, report_text>>
    /\ UNCHANGED <<fetchVars, selectVars, generateVars>>

Validate ==
    /\ pc = "validate"
    /\ result' = IF validation_fails(criteria) THEN "raised" ELSE "returned"
    /\ pc' = "done"
    /\ UNCHANGED <<prompt, criteria, llm, earlier, report_text>>
    /\ UNCHANGED <<fetchVars, selectVars, generateVars>>

NextExtract ==
    \/ MultiType
    \/ Cascade
    \/ Keywords
    \/ Mappings
    \/ FallbackNotNeeded
    \/ FallbackUnavailable
    \/ FallbackRaises
    \/ FallbackResponds
    \/ Positional
    \/ Validate

\* Lines 91-96: every call builds its criteria dict anew; nothing of the dict
\* of the call before it is kept.
\* The dict kept from one call to the next.
criteria_at_entry_Kept(previous) == previous

criteria_at_entry(previous) == EmptyCriteria

\* The prompts of a further call: the prompt of the call before it, or one of
\* the prompts that fill other fields.
LaterPrompts(p) == {p, PromptBigData, PromptComplete, PromptTwoNumbers}

\* A further call of parse_prompt_with_hybrid, made after an earlier call has
\* returned or raised.
ExtractAgain ==
    /\ pc = "done"
    /\ prompt' \in LaterPrompts(prompt)
    /\ criteria' = criteria_at_entry(criteria)
    /\ pc' = "multi_type"
    /\ llm' = LlmIdle
    /\ result' = "pending"
    /\ earlier' = TRUE
    /\ UNCHANGED <<fetchVars, report_text, selectVars, generateVars>>

NextExtractCalls ==
    \/ NextExtract
    \/ ExtractAgain

SpecExtract == InitExtract /\ [][NextExtractCalls]_vars

(***************************************************************************)
(* find_balanced_subset_with_report (question_filter.py, lines 57-114) run   *)
(* on a pool, a required count and an optional target.                      *)
(***************************************************************************)
MaxPool == 3

\* The marks a question of the pool carries.
MarkValues == {0, 1, 60}

Question(m) ==
    [question_type |-> "mcq", subject |-> "big data", chapter |-> "hdfs",
     difficulty |-> "easy", bloom_level |-> "apply", positive_marks |-> m]

RECURSIVE PoolsUpTo(_)
PoolsUpTo(n) ==
    IF n = 0 THEN {<<>>}
    ELSE LET shorter == PoolsUpTo(n - 1)
         IN  shorter \cup {Append(qs, Question(m)) : qs \in shorter, m \in MarkValues}

\* The marks sums of the pool's subsets, and one more than each.
SubsetSums(qs) == {MarksOf(qs, Ascending(S)) : S \in SUBSET (1..Len(qs))}

Targets(qs) == SubsetSums(qs) \cup {t + 1 : t \in SubsetSums(qs)}

num_questions == Val(criteria.num_questions)
max_marks == criteria.max_marks

InitSelect ==
    /\ prompt = <<>>
    /\ llm = LlmIdle
    /\ result = "returned"
    /\ earlier = FALSE
    /\ report_text = None
    /\ pool \in PoolsUpTo(MaxPool)
    /\ \E k \in 0..(Len(pool) + 1), t \in {None} \cup {Some(m) : m \in Targets(pool)} :
           criteria = [EmptyCriteria EXCEPT !.num_questions = Some(k), !.max_marks = t]
    /\ pc = "select"
    /\ selection = <<>>
    /\ warnings = <<>>
    /\ tries = 0
    /\ best_selection = None
    /\ least_diff = None
    /\ drawn = None
    /\ GenerateIdle
    /\ FetchIdle

\* Lines 63-64.
SelectTooFew ==
    /\ pc = "select"
    /\ Len(pool) < num_questions
    /\ selection' = <<>>
    /\ pc' = "selected"
    /\ UNCHANGED <<fetchVars, extractVarsButPc, pool, warnings, tries, best_selection, least_diff, drawn>>
    /\ UNCHANGED <<generateVars, fetchVars>>

\* Lines 67-68.
SelectNoMarks ==
    /\ pc = "select"
    /\ Len(pool) >= num_questions
    /\ ~Truthy(max_marks)
    /\ selection' \in Samples(pool, num_questions)
    /\ pc' = "selected"
    /\ UNCHANGED <<fetchVars, extractVarsButPc, pool, warnings, tries, best_selection, least_diff, drawn>>
    /\ UNCHANGED <<generateVars, fetchVars>>

\* Lines 83-86: the exact regime finds a selection.
SelectExact ==
    /\ pc = "select"
    /\ Len(pool) >= num_questions
    /\ Truthy(max_marks)
    /\ exact_regime(pool, num_questions, Val(max_marks)) # <<>>
    /\ selection' = exact_regime(pool, num_questions, Val(max_marks))
    /\ pc' = "selected"
    /\ UNCHANGED <<fetchVars, extractVarsButPc, pool, warnings, tries, best_selection, least_diff, drawn>>
    /\ UNCHANGED <<generateVars, fetchVars>>

\* Lines 83-92: it does not; the sampling loop starts.
SelectSearch ==
    /\ pc = "select"
    /\ Len(pool) >= num_questions
    /\ Truthy(max_marks)
    /\ exact_regime(pool, num_questions, Val(max_marks)) = <<>>
    /\ pc' = "search"
    /\ tries' = 0
    /\ best_selection' = None
    /\ least_diff' = None
    /\ drawn' = None
    /\ UNCHANGED <<fetchVars, extractVarsButPc, pool, selection, warnings>>
    /\ UNCHANGED <<generateVars, fetchVars>>

\* Lines 93-104: one iteration, whose sample hits the target.
DrawExact ==
    /\ pc = "search"
    /\ tries < max_tries(pool)
    /\ \E sample \in Samples(pool, num_questions) :
           /\ Abs(MarksOf(pool, sample) - Val(max_marks)) = 0
           /\ best_selection' = Some(sample)
           /\ least_diff' = Some(0)
           /\ drawn' = Some(sample)
           /\ selection' = sample
    /\ pc' = "selected"
    /\ UNCHANGED <<fetchVars, extractVarsButPc, pool, warnings, tries>>
    /\ UNCHANGED <<generateVars, fetchVars>>

\* Lines 93-100: one iteration, whose sample misses it.
DrawInexact ==
    /\ pc = "search"
    /\ tries < max_tries(pool)
    /\ \E sample \in Samples(pool, num_questions) :
           LET diff == Abs(MarksOf(pool, sample) - Val(max_marks))
           IN  /\ diff # 0
               /\ best_selection' = IF Improves(pool, best_selection, diff, Val(max_marks))
                                    THEN Some(sample) ELSE best_selection
               /\ least_diff' = IF least_diff = None THEN Some(diff)
                                ELSE Some(Min(Val(least_diff), diff))
               /\ drawn' = Some(sample)
    /\ tries' = tries + 1
    /\ UNCHANGED <<fetchVars, extractVarsButPc, pc, pool, selection, warnings>>
    /\ UNCHANGED <<generateVars, fetchVars>>

\* Lines 106-114: the loop is over.  An empty list is false in "if best_selection".
SearchEnd ==
    /\ pc = "search"
    /\ tries = max_tries(pool)
    /\ IF best_selection # None /\ Val(best_selection) # <<>>
       THEN LET actual_marks == MarksOf(pool, Val(best_selection))
                best_diff == Abs(actual_marks - Val(max_marks))
            IN  /\ warnings' = IF best_diff > 0
                               THEN <<InexactWarning(Val(max_marks), actual_marks, best_diff)>>
                               ELSE <<>>
                /\ selection' = Val(best_selection)
       ELSE /\ warnings' = <<>>
            /\ selection' = <<>>
    /\ pc' = "selected"
    /\ UNCHANGED <<fetchVars, extractVarsButPc, pool, tries, best_selection, least_diff, drawn>>
    /\ UNCHANGED <<generateVars, fetchVars>>

NextSelect ==
    \/ SelectTooFew
    \/ SelectNoMarks
    \/ SelectExact
    \/ SelectSearch
    \/ DrawExact
    \/ DrawInexact
    \/ SearchEnd

SpecSelect == InitSelect /\ [][NextSelect]_vars

(***************************************************************************)
(* find_questions_for_marks (question_filter.py, lines 158-179) run on a     *)
(* pool, a count and a target: criteria.num_questions holds count and        *)
(* criteria.max_marks holds target_marks.                                    *)
(***************************************************************************)
MarksMaxTries == 100

\* Line 167: range(min(100, len(filtered_questions))).
marks_tries(qs) == Min(MarksMaxTries, Len(qs))

InitMarks ==
    /\ prompt = <<>>
    /\ llm = LlmIdle
    /\ result = "returned"
    /\ earlier = FALSE
    /\ report_text = None
    /\ pool \in PoolsUpTo(MaxPool)
    /\ \E k \in 0..(Len(pool) + 1), t \in Targets(pool) :
           criteria = [EmptyCriteria EXCEPT !.num_questions = Some(k), !.max_marks = Some(t)]
    /\ pc = "marks"
    /\ selection = <<>>
    /\ warnings = <<>>
    /\ tries = 0
    /\ best_selection = None
    /\ least_diff = None
    /\ drawn = None
    /\ GenerateIdle
    /\ FetchIdle

\* Lines 160-161: fewer questions than count; all of them are returned.
MarksTooFew ==
    /\ pc = "marks"
    /\ Len(pool) < num_questions
    /\ selection' \in Samples(pool, Len(pool))
    /\ pc' = "marks_returned"
    /\ UNCHANGED <<fetchVars, extractVarsButPc, pool, warnings, tries, best_selection, least_diff, drawn>>
    /\ UNCHANGED <<generateVars, fetchVars>>

\* Lines 163-167: the loop starts.
MarksSearch ==
    /\ pc = "marks"
    /\ Len(pool) >= num_questions
    /\ pc' = "marks_search"
    /\ UNCHANGED <<fetchVars, extractVarsButPc, pool, selection, warnings, tries, best_selection,
                   least_diff, drawn>>
    /\ UNCHANGED <<generateVars, fetchVars>>

\* Lines 168-177: one iteration, whose sample hits the target; break, and
\* line 179 returns best_selection.
MarksDrawExact ==
    /\ pc = "marks_search"
    /\ tries < marks_tries(pool)
    /\ \E sample \in Samples(pool, num_questions) :
           /\ Abs(MarksOf(pool, sample) - Val(max_marks)) = 0
           /\ best_selection' = IF Improves(pool, best_selection, 0, Val(max_marks))
                                THEN Some(sample) ELSE best_selection
           /\ least_diff' = Some(0)
           /\ drawn' = Some(sample)
    /\ selection' = Val(best_selection')
    /\ pc' = "marks_returned"
    /\ UNCHANGED <<fetchVars, extractVarsButPc, pool, warnings, tries>>
    /\ UNCHANGED <<generateVars, fetchVars>>

\* Lines 168-174: one iteration, whose sample misses it.
MarksDrawInexact ==
    /\ pc = "marks_search"
    /\ tries < marks_tries(pool)
    /\ \E sample \in Samples(pool, num_questions) :
           LET diff == Abs(MarksOf(pool, sample) - Val(max_marks))
           IN  /\ diff # 0
               /\ best_selection' = IF Improves(pool, best_selection, diff, Val(max_marks))
                                    THEN Some(sample) ELSE best_selection
               /\ least_diff' = IF least_diff = None THEN Some(diff)
                                ELSE Some(Min(Val(least_diff), diff))
               /\ drawn' = Some(sample)
    /\ tries' = tries + 1
    /\ UNCHANGED <<fetchVars, extractVarsButPc, pc, pool, selection, warnings>>
    /\ UNCHANGED <<generateVars, fetchVars>>

\* Line 179: the loop is over; with no iteration done a sample is drawn here.
MarksLoopEnd ==
    /\ pc = "marks_search"
    /\ tries = marks_tries(pool)
    /\ IF best_selection # None
       THEN selection' = Val(best_selection) /\ drawn' = drawn
       ELSE \E sample \in Samples(pool, num_questions) :
                selection' = sample /\ drawn' = Some(sample)
    /\ pc' = "marks_returned"
    /\ UNCHANGED <<fetchVars, extractVarsButPc, pool, warnings, tries, best_selection, least_diff>>
    /\ UNCHANGED <<generateVars, fetchVars>>

NextMarks ==
    \/ MarksTooFew
    \/ MarksSearch
    \/ MarksDrawExact
    \/ MarksDrawInexact
    \/ MarksLoopEnd

\* Either search.
InitSearches == InitSelect \/ InitMarks

NextSearches ==
    \/ NextSelect
    \/ NextMarks

SpecSearches == InitSearches /\ [][NextSearches]_vars

(***************************************************************************)
(* generate_exam_paper and generate_multi_type_exam                         *)
(* (services/exam_generator.py), run on a prompt and the rows the storage   *)
(* holds.  parse_prompt_with_hybrid runs by the actions of the extractor.   *)
(***************************************************************************)
MaxRows == 2

Row(ty, subj, m) ==
    [question_type |-> ty, subject |-> subj, chapter |-> "hdfs", difficulty |-> "easy",
     bloom_level |-> "apply", positive_marks |-> m]

Rows ==
    { Row("mcq", "Big Data", 1), Row("mcq", "Big Data Analytics", 2), Row("mcq", Null, 1),
      Row("tf", "Big Data", 1), Row("TF", "Big Data", 2), Row("mcq", "Big Data", 60),
      Row(Null, "Big Data", 1) }

RECURSIVE TablesUpTo(_)
TablesUpTo(n) ==
    IF n = 0 THEN {<<>>}
    ELSE LET shorter == TablesUpTo(n - 1)
         IN  shorter \cup {Append(qs, q) : qs \in shorter, q \in Rows}

GeneratePrompts ==
    { PromptComplete,
      <<"5", "questions", ",", "maximum", "10", "marks", ",", "subject", "Big Data", ",",
        "chapter", "hdfs">>,
      <<"1", "mcqs", ",", "1", "true false", ",", "maximum", "2", "marks">>,
      <<"1", "mcqs", ",", "subject", "Big Data">>,
      <<"1", "questions", ",", "maximum", "1", "marks", ",", "subject", "Big Data">>,
      <<"2", "questions", ",", "maximum", "3", "marks">>,
      <<"2", "questions", ",", "maximum", "120", "marks">>,
      <<"1", "questions", ",", "maximum", "0", "marks", ",", "chapter", "hdfs", ",",
        "difficulty", "easy">>,
      <<"0", "questions", ",", "maximum", "1", "marks">>,
      <<"0", "mcqs", ",", "1", "true false">>,
      <<"1", "mcqs", ",", "maximum", "0", "marks">>,
      <<"1", "questions", ",", "subject", "Big Data", ",", "1", "positive", "marks">>,
      <<"please">> }

InitGenerate ==
    /\ prompt \in GeneratePrompts
    /\ criteria = EmptyCriteria
    /\ pc = "multi_type"
    /\ llm = LlmIdle
    /\ result = "pending"
    /\ earlier = FALSE
    /\ report_text = None
    /\ SelectIdle
    /\ GenerateIdle
    /\ FetchIdle

\* Except with the exception raised again instead of handled.
Except_Reraises ==
    /\ report' = report
    /\ paper' = paper
    /\ pc' = "gen_raised"

\* Lines 83-86: the handler of every exception raised in the body.
Except ==
    /\ report' = add_warning(report, ErrorWarning)
    /\ paper' = ""
    /\ pc' = "gen_done"

\* Line 25: parse_prompt_with_hybrid raised ValueError.
ParseRaised ==
    /\ pc = "done"
    /\ result = "raised"
    /\ Except
    /\ UNCHANGED <<fetchVars, extractVarsButPc, selectVars, all_questions, multi>>

\* Line 28, question_repository.py line 15: no storage client; the fetch raises.
FetchRaises ==
    /\ pc = "done"
    /\ result = "returned"
    /\ Except
    /\ UNCHANGED <<fetchVars, extractVarsButPc, selectVars, all_questions, multi>>

\* Lines 28-33: the query failed (question_repository.py lines 52-54) or the
\* table is empty; either way the list is empty.
FetchNothing ==
    /\ pc = "done"
    /\ result = "returned"
    /\ all_questions' = <<>>
    /\ report' = add_warning(set_initial_count(report, 0), NoQuestionsWarning)
    /\ paper' = ""
    /\ pc' = "gen_done"
    /\ UNCHANGED <<fetchVars, extractVarsButPc, selectVars, multi>>

\* Lines 28-36: the storage answers with rows.
FetchRows ==
    /\ pc = "done"
    /\ result = "returned"
    /\ \E rows \in TablesUpTo(MaxRows) \ {<<>>} :
           /\ all_questions' = rows
           /\ report' = set_initial_count(report, Len(rows))
           /\ multi' = MultiStart(Len(rows))
    /\ pc' = IF criteria.question_types_breakdown # None THEN "multi_type_exam" ELSE "filter"
    /\ UNCHANGED <<fetchVars, extractVarsButPc, selectVars, paper>>

\* Lines 46-61: too few questions pass the filter; the suggestions are computed.
FilterTooFew ==
    /\ pc = "filter"
    /\ LET f == filter_questions_with_report(all_questions, criteria)
           sg == suggest_relaxed_criteria_with_report(all_questions, criteria)
           warned == add_warning(set_final_count(f.report, Len(f.filtered)),
                                 NotEnoughWarning(num_questions, Len(f.filtered)))
       IN  /\ Len(f.filtered) < num_questions
           /\ ~sg.raised
           /\ report' = add_suggestions(warned, sg.suggestions)
    /\ paper' = ""
    /\ pc' = "gen_done"
    /\ UNCHANGED <<fetchVars, extractVarsButPc, selectVars, all_questions, multi>>

\* Lines 46-58 and 83-86: too few pass, and suggest_relaxed_criteria_with_report
\* raises.
SuggestRaises ==
    /\ pc = "filter"
    /\ LET f == filter_questions_with_report(all_questions, criteria)
           sg == suggest_relaxed_criteria_with_report(all_questions, criteria)
           warned == add_warning(set_final_count(f.report, Len(f.filtered)),
                                 NotEnoughWarning(num_questions, Len(f.filtered)))
       IN  /\ Len(f.filtered) < num_questions
           /\ sg.raised
           /\ report' = add_warning(warned, ErrorWarning)
    /\ paper' = ""
    /\ pc' = "gen_done"
    /\ UNCHANGED <<fetchVars, extractVarsButPc, selectVars, all_questions, multi>>

\* FilterEnough filtering the list of the rows itself instead of building a
\* new one.
FilterEnough_InPlace ==
    /\ pc = "filter"
    /\ LET f == filter_questions_with_report(all_questions, criteria)
       IN  /\ Len(f.filtered) >= num_questions
           /\ report' = set_final_count(f.report, Len(f.filtered))
           /\ pool' = f.filtered
           /\ all_questions' = f.filtered
    /\ pc' = "select"
    /\ UNCHANGED <<fetchVars, extractVarsButPc, selection, warnings, tries, best_selection, least_diff, drawn,
                   paper, multi>>

\* Lines 46-64: enough pass; find_balanced_subset_with_report is entered.
FilterEnough ==
    /\ pc = "filter"
    /\ LET f == filter_questions_with_report(all_questions, criteria)
       IN  /\ Len(f.filtered) >= num_questions
           /\ report' = set_final_count(f.report, Len(f.filtered))
           /\ pool' = f.filtered
    /\ pc' = "select"
    /\ UNCHANGED <<fetchVars, extractVarsButPc, selection, warnings, tries, best_selection, least_diff, drawn,
                   all_questions, paper, multi>>

\* Lines 64-70: the selector returned nothing.
NoSelection ==
    /\ pc = "selected"
    /\ selection = <<>>
    /\ report' = add_warning(add_warnings(report, warnings), NoSubsetWarning)
    /\ paper' = ""
    /\ pc' = "gen_done"
    /\ UNCHANGED <<fetchVars, extractVarsButPc, selectVars, all_questions, multi>>

\* The text of a paper, with and without the line store_batch_exam's id adds.
Paper == "paper"
BatchPaper == "batch exam id, paper"

\* Lines 76-79 and 177-180: store_batch_exam runs only for a batch name, and
\* gives an id or None.
Papers(c) == IF c.batch_name # None THEN {Paper, BatchPaper} ELSE {Paper}

\* Lines 64-81: the paper is written.
WritePaper ==
    /\ pc = "selected"
    /\ selection # <<>>
    /\ report' = add_warnings(report, warnings)
    /\ paper' \in Papers(criteria)
    /\ pc' = "gen_done"
    /\ UNCHANGED <<fetchVars, extractVarsButPc, selectVars, all_questions, multi>>

\* The fields generate_multi_type_exam filters by besides the type (line 113).
type_filter_fields == <<"subject", "chapter", "difficulty", "bloom_level">>

\* The positions of ps whose question satisfies Test.
KeepPositions(ps, Test(_)) == LET At(i) == Test(all_questions[i]) IN SelectSeq(ps, At)

\* Lines 114-124 from field number j on: the positions left and the report, or
\* raised (.lower() of a None column).
RECURSIVE type_filter_from(_, _, _, _, _)
type_filter_from(ps, c, q_type, j, r) ==
    IF j > Len(type_filter_fields) THEN [raised |-> FALSE, filtered |-> ps, report |-> r]
    ELSE LET field == type_filter_fields[j]
             Test(q) == SameText(c[field], q[field])
             kept == KeepPositions(ps, Test)
         IN  IF c[field] = None THEN type_filter_from(ps, c, q_type, j + 1, r)
             ELSE IF \E k \in 1..Len(ps) : all_questions[ps[k]][field] = Null
             THEN [raised |-> TRUE, filtered |-> <<>>, report |-> r]
             ELSE type_filter_from(kept, c, q_type, j + 1,
                      add_step(r, [prefix |-> q_type, field |-> field, value |-> c[field]],
                               Len(ps), Len(kept)))

\* Lines 108-124: the candidates of type q_type.
type_filter(c, q_type, r) ==
    LET all_positions == [i \in 1..Len(all_questions) |-> i]
        Test(q) == Lower(q.question_type) = Lower(q_type)
    IN  IF \E i \in 1..Len(all_questions) : all_questions[i].question_type = Null
        THEN [raised |-> TRUE, filtered |-> <<>>, report |-> r]
        ELSE type_filter_from(KeepPositions(all_positions, Test), c, q_type, 1, r)

RECURSIVE MarksAt(_)
MarksAt(ps) ==
    IF ps = <<>> THEN 0 ELSE all_questions[ps[1]].positive_marks + MarksAt(Tail(ps))

Range(sq) == {sq[i] : i \in 1..Len(sq)}

\* SamplesOf returning every candidate, whatever the count.
SamplesOf_All(ps, count) == {ps}

\* random.sample(filtered_questions, count), as positions of all_questions.
SamplesOf(ps, count) ==
    {Ascending(S) : S \in {T \in SUBSET Range(ps) : Cardinality(T) = count}}

\* Lines 135-150: the target handed to find_questions_for_marks, None when the
\* sample is drawn without one.
target_marks_for_type(c, count) ==
    LET remaining_marks == Val(c.max_marks) - multi.total_marks_used
        remaining_questions == SumCounts(c.question_types_breakdown) - multi.total_questions
    IN  IF Truthy(c.max_marks) /\ remaining_questions > 0
        THEN Some((remaining_marks * count) \div remaining_questions)
        ELSE None

TypeNow == criteria.question_types_breakdown[multi.i]

MoreTypes == pc = "multi_type_exam" /\ multi.i <= Len(criteria.question_types_breakdown)

\* Lines 108-120 and 83-86 of the caller: the filter of the type raises.
TypeRaises ==
    /\ MoreTypes
    /\ type_filter(criteria, TypeNow.t, multi.report).raised
    /\ Except
    /\ UNCHANGED <<fetchVars, extractVarsButPc, selectVars, all_questions, multi>>

\* Lines 128-132: too few candidates; the type is skipped.
TypeSkipped ==
    /\ MoreTypes
    /\ LET f == type_filter(criteria, TypeNow.t, multi.report)
       IN  /\ ~f.raised
           /\ Len(f.filtered) < TypeNow.c
           /\ multi' = [multi EXCEPT
                  !.i = @ + 1,
                  !.report = add_warning(f.report,
                                 NotEnoughOfTypeWarning(TypeNow.t, TypeNow.c, Len(f.filtered)))]
    /\ UNCHANGED <<fetchVars, extractVars, selectVars, all_questions, report, paper>>

\* Lines 135-158: find_questions_for_marks keeps the first best of its
\* min(100, len) samples, and any sample can be drawn every time: it returns any
\* sample, as random.sample does.
TypeSelected ==
    /\ MoreTypes
    /\ LET f == type_filter(criteria, TypeNow.t, multi.report)
       IN  /\ ~f.raised
           /\ Len(f.filtered) >= TypeNow.c
           /\ \E selected \in SamplesOf(f.filtered, TypeNow.c) :
                  multi' = [multi EXCEPT
                      !.i = @ + 1,
                      !.report = f.report,
                      !.all_selected_questions = @ \o selected,
                      !.total_questions = @ + Len(selected),
                      !.total_marks_used = @ + MarksAt(selected),
                      !.target = target_marks_for_type(criteria, TypeNow.c)]
    /\ UNCHANGED <<fetchVars, extractVars, selectVars, all_questions, report, paper>>

\* The merge without line 42: the parent keeps its own final_count.
Merged_OwnCount(r, m) ==
    [r EXCEPT !.steps = @ \o m.steps,
              !.warnings = @ \o m.warnings,
              !.suggestions = @ \o m.suggestions]

\* Lines 36-43: the sub-run's report goes into the caller's.
Merged(r, m) ==
    set_final_count([r EXCEPT !.steps = @ \o m.steps,
                              !.warnings = @ \o m.warnings,
                              !.suggestions = @ \o m.suggestions],
                    m.final_count)

TypesDone == pc = "multi_type_exam" /\ multi.i > Len(criteria.question_types_breakdown)

\* Lines 160-163.
NothingSelected ==
    /\ TypesDone
    /\ multi.all_selected_questions = <<>>
    /\ multi' = [multi EXCEPT !.report = add_warning(@, NothingSelectedWarning)]
    /\ report' = Merged(report, multi'.report)
    /\ paper' = ""
    /\ pc' = "gen_done"
    /\ UNCHANGED <<fetchVars, extractVarsButPc, selectVars, all_questions>>

\* Lines 165-182.
WriteMultiTypePaper ==
    /\ TypesDone
    /\ multi.all_selected_questions # <<>>
    /\ multi' = [multi EXCEPT !.report =
           set_final_count(
               IF Truthy(max_marks) /\ multi.total_marks_used # Val(max_marks)
               THEN add_warning(@, MismatchWarning(Val(max_marks), multi.total_marks_used))
               ELSE @,
               multi.total_questions)]
    /\ report' = Merged(report, multi'.report)
    /\ paper' \in Papers(criteria)
    /\ pc' = "gen_done"
    /\ UNCHANGED <<fetchVars, extractVarsButPc, selectVars, all_questions>>

\* find_balanced_subset_with_report is entered with at least num_questions
\* candidates (line 52), so its first return is not taken here.
NextGenerate ==
    \/ NextExtract
    \/ ParseRaised
    \/ FetchRaises
    \/ FetchNothing
    \/ FetchRows
    \/ FilterTooFew
    \/ SuggestRaises
    \/ FilterEnough
    \/ SelectNoMarks
    \/ SelectExact
    \/ SelectSearch
    \/ DrawExact
    \/ DrawInexact
    \/ SearchEnd
    \/ NoSelection
    \/ WritePaper
    \/ TypeRaises
    \/ TypeSkipped
    \/ TypeSelected
    \/ NothingSelected
    \/ WriteMultiTypePaper

SpecGenerate == InitGenerate /\ [][NextGenerate]_vars

\* What a call makes of prompt p when the fallback model does l: the stages
\* applied in order to a new criteria dict.
FilledBy(c, l) == IF l.kind = "response" THEN fill_from_llm(c, l.resp) ELSE c

OutcomeOf(p, l) ==
    LET c == positional_fallback(FilledBy(BeforeFallback(p), l), p)
    IN  [criteria |-> c, result |-> IF validation_fails(c) THEN "raised" ELSE "returned"]

(***************************************************************************)
(* fetch_questions_from_supabase (database/question_repository.py) behind   *)
(* its lru_cache, called by debug_database_content (utils/debug.py) for     *)
(* requests that follow one another and by another caller in between        *)
(* (test_supabase_connection, supabase_client.py line 26, or a second       *)
(* request).  The table is a sequence of stored rows, each with the         *)
(* organization it belongs to; the cache is the sequence of its entries,    *)
(* the least recently used first.                                           *)
(***************************************************************************)
\* maxsize of the decorator.
CacheMaxSize == 128

\* The organization ids callers pass; None asks for the rows of all.
OrgIds == {None, Some("org-1")}

Stored(o, q) == [organization_id |-> o, q |-> q]

StoredTables ==
    { <<Stored(Some("org-1"), Row("mcq", "Big Data", 1)),
        Stored(Some("org-2"), Row(Null, "Big Data", 1)),
        Stored(Some("org-1"), Row("mcq", Null, 2))>>,
      <<Stored(Some("org-1"), Row("mcq", "Big Data", 60)),
        Stored(Some("org-2"), Row("mcq", "Big Data", 60)),
        Stored(Some("org-2"), Row("mcq", "Big Data", 1))>> }

\* Lines 18-47: the rows the query answers with when the service is up.
RECURSIVE query(_, _)
query(table, organization_id) ==
    IF table = <<>> THEN <<>>
    ELSE LET rest == query(Tail(table), organization_id)
         IN  IF organization_id = None \/ Head(table).organization_id = organization_id
             THEN <<Head(table).q>> \o rest
             ELSE rest

\* The body of fetch_questions_from_supabase, lines 13-54: it raises without a
\* client, returns the rows of the answer, and returns an empty tuple when the
\* query raised.
fetch_questions_from_supabase(st, organization_id) ==
    IF ~st.client THEN [raised |-> TRUE, rows |-> <<>>, failed |-> TRUE]
    ELSE IF st.up THEN [raised |-> FALSE, rows |-> query(st.table, organization_id),
                        failed |-> FALSE]
    ELSE [raised |-> FALSE, rows |-> <<>>, failed |-> TRUE]

\* functools.lru_cache, line 7.  An entry holds the arguments of a call and
\* what the call returned (failed is history: the query of that call raised).
Cached(c, key) == \E i \in 1..Len(c) : c[i].key = key

EntryOf(c, key) == c[CHOOSE i \in 1..Len(c) : c[i].key = key]

\* A hit makes the entry the most recently used.
cache_hit(c, key) ==
    LET Other(e) == e.key # key IN Append(SelectSeq(c, Other), EntryOf(c, key))

\* A miss stores what the body returned, in place of the least recently used
\* entry when the cache is full.
cache_store(c, entry) ==
    IF Len(c) >= CacheMaxSize THEN Append(Tail(c), entry) ELSE Append(c, entry)

\* A call through the decorator: what it gives the caller and the cache after
\* it.  An exception of the body leaves the cache as it was.
cached_fetch(c, st, key) ==
    IF Cached(c, key)
    THEN [raised |-> FALSE, rows |-> EntryOf(c, key).value, cache |-> cache_hit(c, key)]
    ELSE LET f == fetch_questions_from_supabase(st, key)
         IN  IF f.raised THEN [raised |-> TRUE, rows |-> <<>>, cache |-> c]
             ELSE [raised |-> FALSE, rows |-> f.rows,
                   cache |-> cache_store(c, [key |-> key, value |-> f.rows,
                                             failed |-> f.failed])]

\* The prompts of the requests.
FetchPrompts == GeneratePrompts

\* What the fallback model does in the calls of these requests: it is not
\* consulted when nothing is missing and is not loaded otherwise.
ModelFor(p) ==
    IF missing_fields(BeforeFallback(p)) = {} THEN LlmIdle
    ELSE [kind |-> "unavailable", resp |-> NoMatchResponse]

\* parse_prompt_with_hybrid has returned the criteria of prompt p (line 25).
Parsed(p) ==
    /\ OutcomeOf(p, ModelFor(p)).result = "returned"
    /\ prompt' = p
    /\ llm' = ModelFor(p)
    /\ criteria' = OutcomeOf(p, ModelFor(p)).criteria
    /\ result' = "returned"
    /\ pc' = "done"

InitFetch ==
    /\ \E p \in FetchPrompts :
           /\ OutcomeOf(p, ModelFor(p)).result = "returned"
           /\ prompt = p
           /\ llm = ModelFor(p)
           /\ criteria = OutcomeOf(p, ModelFor(p)).criteria
    /\ result = "returned"
    /\ pc = "done"
    /\ earlier = FALSE
    /\ report_text = None
    /\ SelectIdle
    /\ GenerateIdle
    /\ storage \in [client : BOOLEAN, up : {TRUE}, table : StoredTables]
    /\ cache = <<>>
    /\ held = None

\* utils/debug.py line 11 and exam_generator.py lines 28-36: the rows arrive
\* as a new list.
Received(rows) ==
    /\ all_questions' = rows
    /\ IF rows = <<>>
       THEN /\ report' = add_warning(set_initial_count(report, 0), NoQuestionsWarning)
            /\ paper' = ""
            /\ pc' = "gen_done"
            /\ UNCHANGED multi
       ELSE /\ report' = set_initial_count(report, Len(rows))
            /\ multi' = MultiStart(Len(rows))
            /\ pc' = IF criteria.question_types_breakdown # None THEN "multi_type_exam"
                     ELSE "filter"
            /\ UNCHANGED paper
    /\ UNCHANGED <<extractVarsButPc, selectVars>>

AtFetch == pc = "done" /\ result = "returned"

\* The arguments of the call of debug.py line 11.
KeyOfRun == criteria.organization_id

\* Line 15 of the repository: no client, the call raises and
\* generate_exam_paper handles it (lines 83-86).
FetchCallRaises ==
    /\ AtFetch
    /\ cached_fetch(cache, storage, KeyOfRun).raised
    /\ Except
    /\ UNCHANGED <<extractVarsButPc, selectVars, all_questions, multi, fetchVars>>

\* The arguments are in the cache: the body does not run.
FetchFromCache ==
    /\ AtFetch
    /\ Cached(cache, KeyOfRun)
    /\ Received(cached_fetch(cache, storage, KeyOfRun).rows)
    /\ cache' = cached_fetch(cache, storage, KeyOfRun).cache
    /\ UNCHANGED <<storage, held>>

\* The arguments are not in the cache and the query answers.
FetchFromStorage ==
    /\ AtFetch
    /\ ~Cached(cache, KeyOfRun)
    /\ storage.client /\ storage.up
    /\ Received(cached_fetch(cache, storage, KeyOfRun).rows)
    /\ cache' = cached_fetch(cache, storage, KeyOfRun).cache
    /\ UNCHANGED <<storage, held>>

\* The arguments are not in the cache and the query raises (lines 52-54).
FetchQueryFails ==
    /\ AtFetch
    /\ ~Cached(cache, KeyOfRun)
    /\ storage.client /\ ~storage.up
    /\ Received(cached_fetch(cache, storage, KeyOfRun).rows)
    /\ cache' = cached_fetch(cache, storage, KeyOfRun).cache
    /\ UNCHANGED <<storage, held>>

\* The steps of generate_exam_paper after the fetch.
AfterFetch ==
    \/ FilterTooFew
    \/ SuggestRaises
    \/ FilterEnough
    \/ SelectNoMarks
    \/ SelectExact
    \/ SelectSearch
    \/ DrawExact
    \/ DrawInexact
    \/ SearchEnd
    \/ NoSelection
    \/ WritePaper
    \/ TypeRaises
    \/ TypeSkipped
    \/ TypeSelected
    \/ NothingSelected
    \/ WriteMultiTypePaper

\* The request is over and the next one has come to its fetch.
NextRequest ==
    /\ pc = "gen_done"
    /\ ~earlier
    /\ earlier' = TRUE
    /\ \E p \in FetchPrompts : Parsed(p)
    /\ pool' = <<>> /\ selection' = <<>> /\ warnings' = <<>> /\ tries' = 0
    /\ best_selection' = None /\ least_diff' = None /\ drawn' = None
    /\ all_questions' = <<>>
    /\ report' = FilteringReport
    /\ paper' = NotReturned
    /\ multi' = MultiStart(0)
    /\ UNCHANGED <<report_text, fetchVars>>

\* The service of the storage goes down and comes back.
StorageFails ==
    /\ storage.up
    /\ storage' = [storage EXCEPT !.up = FALSE]
    /\ UNCHANGED <<extractVars, selectVars, generateVars, cache, held>>

StorageRecovers ==
    /\ ~storage.up
    /\ storage' = [storage EXCEPT !.up = TRUE]
    /\ UNCHANGED <<extractVars, selectVars, generateVars, cache, held>>

\* Another caller fetches and holds what it got until it is done with it.
OtherFetches ==
    /\ held = None
    /\ \E key \in OrgIds :
           LET r == cached_fetch(cache, storage, key)
           IN  /\ ~r.raised
               /\ held' = Some([key |-> key, rows |-> r.rows])
               /\ cache' = r.cache
    /\ UNCHANGED <<extractVars, selectVars, generateVars, storage>>

OtherReturns ==
    /\ held # None
    /\ held' = None
    /\ UNCHANGED <<extractVars, selectVars, generateVars, storage, cache>>

NextFetch ==
    \/ FetchCallRaises
    \/ FetchFromCache
    \/ FetchFromStorage
    \/ FetchQueryFails
    \/ AfterFetch
    \/ NextRequest
    \/ StorageFails
    \/ StorageRecovers
    \/ OtherFetches
    \/ OtherReturns

SpecFetch == InitFetch /\ [][NextFetch]_vars

(***************************************************************************)
(* A FilteringReport (models/filtering_report.py) in the hands of its       *)
(* callers: the generator writes to it, the paper formatter                 *)
(* (paper_formatter.py, lines 165 and 194) and the route                    *)
(* (exam_routes.py, lines 27 and 33) call generate_report.                  *)
(***************************************************************************)
MaxEntries == 1

\* The steps, warnings and suggestions the callers add, and the counts they set.
ReportSteps ==
    {[description |-> "subject", before |-> 2, after |-> 1],
     [description |-> "chapter", before |-> 1, after |-> 0]}

ReportCounts == {1, 2}

ReportWarnings == {NoQuestionsWarning, NotEnoughWarning(2, 1)}

ReportSuggestions == {[field |-> "subject", value |-> <<"big data">>, count |-> 2]}

InitReport ==
    /\ prompt = <<>>
    /\ criteria = EmptyCriteria
    /\ pc = "report_new"
    /\ llm = LlmIdle
    /\ result = "pending"
    /\ earlier = FALSE
    /\ report_text = None
    /\ SelectIdle
    /\ GenerateIdle
    /\ FetchIdle

ReportUnchanged == UNCHANGED <<fetchVars, extractVarsButPc, selectVars, all_questions, paper, multi>>

AddStep ==
    /\ Len(report.steps) < MaxEntries
    /\ \E st \in ReportSteps : report' = add_step(report, st.description, st.before, st.after)
    /\ pc' = "report_changed"
    /\ ReportUnchanged

AddWarning ==
    /\ Len(report.warnings) < MaxEntries
    /\ \E w \in ReportWarnings : report' = add_warning(report, w)
    /\ pc' = "report_changed"
    /\ ReportUnchanged

AddSuggestion ==
    /\ Len(report.suggestions) < MaxEntries
    /\ \E sg \in ReportSuggestions : report' = add_suggestion(report, sg)
    /\ pc' = "report_changed"
    /\ ReportUnchanged

SetInitialCount ==
    /\ \E n \in ReportCounts : report' = set_initial_count(report, n)
    /\ pc' = "report_changed"
    /\ ReportUnchanged

SetFinalCount ==
    /\ \E n \in ReportCounts : report' = set_final_count(report, n)
    /\ pc' = "report_changed"
    /\ ReportUnchanged

Rendered == pc \in {"report_rendered", "report_rendered_again"}

\* generate_report emptying the warnings it has written.
GenerateReport_ClearsWarnings ==
    /\ report_text' = Some(generate_report(report))
    /\ report' = [report EXCEPT !.warnings = <<>>]
    /\ pc' = IF Rendered THEN "report_rendered_again" ELSE "report_rendered"
    /\ UNCHANGED <<fetchVars, prompt, criteria, llm, result, earlier, selectVars, all_questions, paper,
                   multi>>

\* A call of generate_report: the text is built from the fields, no field is
\* assigned.
GenerateReport ==
    /\ report_text' = Some(generate_report(report))
    /\ report' = report
    /\ pc' = IF Rendered THEN "report_rendered_again" ELSE "report_rendered"
    /\ UNCHANGED <<fetchVars, prompt, criteria, llm, result, earlier, selectVars, all_questions, paper,
                   multi>>

NextReport ==
    \/ AddStep
    \/ AddWarning
    \/ AddSuggestion
    \/ SetInitialCount
    \/ SetFinalCount
    \/ GenerateReport

SpecReport == InitReport /\ [][NextReport]_vars

(***************************************************************************)
(* Properties of the extractor                                              *)
(***************************************************************************)
Returned == pc = "done" /\ result = "returned"

\* The integers written in the prompt, and the integer the model's response
\* gave for field f.
NumbersIn(p) == {IntOf(p[i]) : i \in {j \in 1..Len(p) : IsNum(p[j])}}

LlmNumber(f) ==
    IF llm.kind = "response" /\ llm.resp[f] \in NumLex THEN {IntOf(llm.resp[f])} ELSE {}

\* C1: whenever extract returns a breakdown, the returned num_questions is the
\* sum of the breakdown's counts, also when the prompt states "<K> questions".
C1_NumQuestionsIsBreakdownSum ==
    (Returned /\ criteria.question_types_breakdown # None)
        => criteria.num_questions = Some(SumCounts(criteria.question_types_breakdown))

\* Field f is resolved by no stage: not before the model fallback, not by the
\* model, and the prompt has fewer than two integers.
StillNull(f) ==
    /\ BeforeFallback(prompt)[f] = None
    /\ LlmNumber(f) = {}
    /\ Len(numbers(prompt)) < 2

\* C2: extract either returns criteria with num_questions and max_marks both
\* resolved, or raises; it raises exactly when one of the two is resolved by no
\* stage, and a returned value is always one a stage found (the breakdown's sum,
\* an integer of the prompt, the model's answer), never a default.
C2_ReturnsResolvedOrRaises ==
    pc = "done" =>
        /\ result \in {"returned", "raised"}
        /\ result = "returned" => criteria.num_questions # None /\ criteria.max_marks # None
        /\ result = "raised" <=> (StillNull("num_questions") \/ StillNull("max_marks"))
        /\ result = "returned" =>
            /\ Val(criteria.num_questions) \in
                  NumbersIn(prompt) \cup LlmNumber("num_questions")
                  \cup (IF criteria.question_types_breakdown # None
                        THEN {SumCounts(criteria.question_types_breakdown)} ELSE {})
            /\ Val(criteria.max_marks) \in NumbersIn(prompt) \cup LlmNumber("max_marks")

\* extract raised although num_questions was resolved: max_marks alone was missing.
C2_Witness == pc = "done" /\ result = "raised" /\ criteria.num_questions # None

\* The first canonical type, in table order, whose phrase list has a hit.
RECURSIVE FirstKeywordType(_, _)
FirstKeywordType(p, k) ==
    IF k > Len(KeywordOrder) THEN None
    ELSE IF KeywordHit(KeywordOrder[k], p) THEN <<KeywordOrder[k]>>
    ELSE FirstKeywordType(p, k + 1)

\* C7: when a phrase of the keyword table occurs in the prompt, question_type
\* after the keyword scan (before the synonym normalization) is the first type of
\* the table with a hit, whatever the cascade had assigned.
C7_KeywordScanWins ==
    (pc = "mappings" /\ FirstKeywordType(LowerSeq(prompt), 1) # None)
        => criteria.question_type = FirstKeywordType(LowerSeq(prompt), 1)

\* A run "<N> <type>, <M> <type2>" of two different recognised types at position i.
RunAt(p, i) ==
    /\ i + 4 <= Len(p)
    /\ IsNum(p[i]) /\ p[i + 1] \in PrimaryTypeLex
    /\ p[i + 2] = ","
    /\ IsNum(p[i + 3]) /\ p[i + 4] \in PrimaryTypeLex
    /\ type_mappings(p[i + 1]) # type_mappings(p[i + 4])

\* C8: for a prompt that contains a run "<N> <type>, <M> <type2>", whatever comes
\* before or after it, the multi-type parser returns exactly {type: N, type2: M}
\* and extract returns num_questions = N + M.
C8_RunGivesBothCounts ==
    pc = "done" =>
        \A i \in 1..Len(prompt) :
            LET p == LowerSeq(prompt)
            IN  RunAt(p, i) =>
                  /\ parse_multiple_question_types(p)
                        = << [t |-> type_mappings(p[i + 1]), c |-> IntOf(p[i])],
                             [t |-> type_mappings(p[i + 4]), c |-> IntOf(p[i + 3])] >>
                  /\ result = "returned"
                  /\ criteria.num_questions = Some(IntOf(p[i]) + IntOf(p[i + 3]))

\* C9: "2 mcqs, 2 msqs, 1 true false" gives the breakdown {mcq: 2, msq: 2, tf: 1}
\* and num_questions = 5.
C9_McqsMsqsTf ==
    (pc = "done" /\ prompt = PromptMcqsMsqsTf) =>
        /\ result = "returned"
        /\ criteria.question_types_breakdown
              = << [t |-> "mcq", c |-> 2], [t |-> "msq", c |-> 2], [t |-> "tf", c |-> 1] >>
        /\ criteria.num_questions = Some(5)

\* The scenario prompt was extracted after the model had answered.
C9_Witness == pc = "done" /\ prompt = PromptMcqsMsqsTf /\ llm.kind = "response"

\* C10 as stated: "Generate an exam paper with 3 mcqs, maximum 10 marks, subject
\* Big Data" gives num_questions 3, max_marks 10, question_type mcq, subject
\* "Big Data" in its original case and no breakdown.
C10_BigDataAsStated ==
    (pc = "done" /\ prompt = PromptBigData) =>
        /\ result = "returned"
        /\ criteria.num_questions = Some(3)
        /\ criteria.max_marks = Some(10)
        /\ criteria.question_type = <<"mcq">>
        /\ criteria.subject = <<"Big Data">>
        /\ criteria.question_types_breakdown = None

\* C10 amended: the same prompt gives num_questions 3, max_marks 10,
\* question_type mcq, subject "big data" (lower case: the cascade reads the
\* lower-cased prompt) and the breakdown {mcq: 3} ("3 mcqs," is a multi-type item).
C10_BigDataAmended ==
    (pc = "done" /\ prompt = PromptBigData) =>
        /\ result = "returned"
        /\ criteria.num_questions = Some(3)
        /\ criteria.max_marks = Some(10)
        /\ criteria.question_type = <<"mcq">>
        /\ criteria.subject = <<"big data">>
        /\ criteria.question_types_breakdown = << [t |-> "mcq", c |-> 3] >>

\* The scenario prompt was extracted and returned.
C10_Witness == pc = "done" /\ prompt = PromptBigData /\ result = "returned"

(***************************************************************************)
(* Properties of the selector                                               *)
(***************************************************************************)
Selected == pc = "selected"

\* Some num-element subset of qs carries exactly target marks.
ExactExists(qs, num, target) == \E s \in Samples(qs, num) : MarksOf(qs, s) = target

Distinct(sel) == \A i, j \in 1..Len(sel) : i # j => sel[i] # sel[j]

\* C3: for a pool of at most 50 questions with non-negative marks, a count of at
\* most 10 and a target of at most 100, if some subset of that count carries
\* exactly the target then find_exact_subset_dp returns that many distinct pool
\* items summing to the target, and find_balanced_subset_with_report returns
\* that selection with no warning.
C3_ExactSubsetFound ==
    (/\ Selected
     /\ max_marks # None
     /\ Len(pool) <= DpMaxPool /\ num_questions <= DpMaxCount /\ Val(max_marks) <= DpMaxTarget
     /\ ExactExists(pool, num_questions, Val(max_marks)))
        => LET found == find_exact_subset_dp(pool, num_questions, Val(max_marks))
           IN  /\ Len(found) = num_questions
               /\ Distinct(found)
               /\ MarksOf(pool, found) = Val(max_marks)
               /\ selection = found
               /\ warnings = <<>>

\* C4: when the pool has at least num_questions (>= 1) items and max_marks is
\* set, the selection returned is not empty, and a warning (giving the achieved
\* sum, the target and their difference) is emitted exactly when the marks of
\* the selection differ from max_marks.
C4_NonEmptyAndWarnedIffInexact ==
    (/\ Selected
     /\ num_questions >= 1
     /\ Len(pool) >= num_questions
     /\ max_marks # None)
        => LET total == MarksOf(pool, selection)
           IN  /\ selection # <<>>
               /\ (warnings # <<>>) <=> (total # Val(max_marks))
               /\ warnings # <<>> =>
                      warnings = <<InexactWarning(Val(max_marks), total,
                                                  Abs(total - Val(max_marks)))>>

(***************************************************************************)
(* Properties of generate_exam_paper                                        *)
(***************************************************************************)
GenerateDone == pc = "gen_done"

\* The run took the single-type path and too few questions passed the filter.
TooFewPassed ==
    /\ GenerateDone
    /\ result = "returned"
    /\ all_questions # <<>>
    /\ criteria.question_types_breakdown = None
    /\ Len(filter_questions_with_report(all_questions, criteria).filtered) < num_questions

SuggestionsFor(f) == {i \in 1..Len(report.suggestions) : report.suggestions[i].field = f}

\* C5: in the single-type path, when fewer questions than num_questions pass the
\* filter, the paper returned is empty, the report has a warning, and its
\* suggestions hold exactly one entry for each filter field the criteria set and
\* none for the other fields.
C5_TooFewGivesOneSuggestionPerField ==
    TooFewPassed
        => /\ paper = ""
           /\ report.warnings # <<>>
           /\ \A i \in 1..Len(filter_fields) :
                  Cardinality(SuggestionsFor(filter_fields[i]))
                      = IF criteria[filter_fields[i]] # None THEN 1 ELSE 0

\* C6: generate_exam_paper never raises to its caller: from every state short of
\* its return it takes a next step, the step of an exception being the handler's;
\* what it returns is a paper and a report; and an empty paper comes with at
\* least one warning in the report.
C6_NeverRaisesAndEmptyPaperIsWarned ==
    /\ pc # "gen_raised"
    /\ ~GenerateDone => ENABLED NextGenerate
    /\ GenerateDone =>
           /\ paper \in {"", Paper, BatchPaper}
           /\ paper = "" => report.warnings # <<>>

\* An exception of the body was handled: the paper is empty and the report ends
\* with the handler's warning.
C6_Witness ==
    /\ GenerateDone
    /\ paper = ""
    /\ report.warnings # <<>>
    /\ report.warnings[Len(report.warnings)] = ErrorWarning

(***************************************************************************)
(* Properties of the later stages of the extractor                          *)
(***************************************************************************)
\* The bare integers of a prompt in order of appearance.
RECURSIVE BareIntegers(_)
BareIntegers(p) ==
    IF p = <<>> THEN <<>>
    ELSE (IF Head(p) \in NumLex THEN <<IntOf(Head(p))>> ELSE <<>>) \o BareIntegers(Tail(p))

OtherFieldsKept(fields) ==
    \A f \in DOMAIN criteria : f \notin fields => criteria'[f] = criteria[f]

\* C11: the positional fallback gives a null num_questions the first bare integer
\* of the prompt and a null max_marks the second when the prompt has at least
\* two; it leaves a resolved field as it is, and assigns nothing when the prompt
\* has fewer than two integers.
C11_PositionalFallback ==
    [][pc = "positional" =>
          LET ints == BareIntegers(prompt)
          IN  /\ OtherFieldsKept({"num_questions", "max_marks"})
              /\ IF Len(ints) >= 2
                 THEN /\ criteria'.num_questions =
                             IF criteria.num_questions = None THEN Some(ints[1])
                             ELSE criteria.num_questions
                      /\ criteria'.max_marks =
                             IF criteria.max_marks = None THEN Some(ints[2])
                             ELSE criteria.max_marks
                 ELSE /\ criteria'.num_questions = criteria.num_questions
                      /\ criteria'.max_marks = criteria.max_marks]_vars

\* "exam 12 with 8": both fields came from the positional fallback.
C11_Witness ==
    /\ pc = "validate"
    /\ prompt = PromptTwoNumbers
    /\ llm.kind = "unavailable"
    /\ criteria.num_questions = Some(12)
    /\ criteria.max_marks = Some(8)

\* C12: the model fallback assigns only fields that were null when it began:
\* every resolved field has the same value after the stage, whatever the model
\* answers; when the model call raises no field changes and the positional
\* fallback is next.
C12_FallbackFillsOnlyNullFields ==
    [][pc = "fallback" =>
          /\ \A f \in DOMAIN criteria : criteria[f] # None => criteria'[f] = criteria[f]
          /\ llm'.kind = "raises" => (criteria' = criteria /\ pc' = "positional")]_vars

\* The model answered "questions: 4, marks: 7" to a prompt that states 10
\* questions and no marks: the marks were taken, the count was kept.
C12_Witness ==
    /\ pc = "positional"
    /\ llm.kind = "response"
    /\ llm.resp.num_questions = "4"
    /\ llm.resp.max_marks = "7"
    /\ BeforeFallback(prompt).num_questions = Some(10)
    /\ BeforeFallback(prompt).max_marks = None
    /\ criteria.num_questions = Some(10)
    /\ criteria.max_marks = Some(7)

(***************************************************************************)
(* Properties of the sampling loop                                          *)
(***************************************************************************)
\* The sampling loop ran to its end and no sample hit the target.
SearchEndedInexact ==
    /\ Selected
    /\ least_diff # None
    /\ Val(least_diff) # 0

\* C13: when the sampling loop ends without an exact match, the difference
\* between the marks of the returned selection and the target is at most the
\* difference of every sample drawn in that loop, and the difference the
\* warning reports is the returned selection's.
C13_BestOfSamplesDrawn ==
    SearchEndedInexact
        => LET actual_diff == Abs(MarksOf(pool, selection) - Val(max_marks))
           IN  /\ actual_diff <= Val(least_diff)
               /\ \A i \in 1..Len(warnings) : warnings[i].diff = actual_diff
               /\ selection # <<>> => Len(warnings) = 1

\* The loop drew samples of different differences and returned with a warning.
C13_Witness ==
    /\ SearchEndedInexact
    /\ selection # <<>>
    /\ warnings # <<>>
    /\ \E s \in Samples(pool, num_questions) :
           Abs(MarksOf(pool, s) - Val(max_marks)) > Val(least_diff)

(***************************************************************************)
(* Properties of generate_multi_type_exam                                   *)
(***************************************************************************)
\* generate_exam_paper is over and took the multi-type path.
MultiTypeRunDone ==
    /\ GenerateDone
    /\ result = "returned"
    /\ all_questions # <<>>
    /\ criteria.question_types_breakdown # None

Breakdown == criteria.question_types_breakdown

\* The positions of the questions of type ty that agree with the subject,
\* chapter, difficulty and bloom_level of the criteria.
CandidatesOf(ty) ==
    {i \in 1..Len(all_questions) :
        /\ all_questions[i].question_type # Null
        /\ Lower(all_questions[i].question_type) = Lower(ty)
        /\ \A j \in 1..Len(type_filter_fields) :
               LET f == type_filter_fields[j]
               IN  criteria[f] # None =>
                       /\ all_questions[i][f] # Null
                       /\ SameText(criteria[f], all_questions[i][f])}

SelectedOf(ty) ==
    {k \in 1..Len(multi.all_selected_questions) :
        multi.all_selected_questions[k] \in CandidatesOf(ty)}

WarningsLike(w) == {k \in 1..Len(report.warnings) : report.warnings[k] = w}

\* C14: a type with fewer candidates than its count adds one warning naming the
\* required and the available number and contributes no question; the other
\* types are still processed, so the run returns a paper whenever some type had
\* enough candidates.
C14_SkippedTypeDoesNotAbort ==
    MultiTypeRunDone
        => /\ \A i \in 1..Len(Breakdown) :
                  LET ty == Breakdown[i].t
                      available == Cardinality(CandidatesOf(ty))
                  IN  IF available < Breakdown[i].c
                      THEN /\ Cardinality(WarningsLike(
                                  NotEnoughOfTypeWarning(ty, Breakdown[i].c, available))) = 1
                           /\ SelectedOf(ty) = {}
                      ELSE Cardinality(SelectedOf(ty)) = Breakdown[i].c
           /\ (\E i \in 1..Len(Breakdown) :
                  Cardinality(CandidatesOf(Breakdown[i].t)) >= Breakdown[i].c)
                  => paper # ""

MismatchWarnings ==
    {k \in 1..Len(report.warnings) : report.warnings[k].kind = "total marks mismatch"}

\* C15: when generate_multi_type_exam ends with a non-empty selection, one
\* mismatch warning naming the target and the actual total is added exactly
\* when max_marks is set and the marks of the selected questions differ from
\* it, and there is no other mismatch warning.
C15_OneMismatchWarningIffDifferent ==
    (MultiTypeRunDone /\ paper # "" /\ multi.all_selected_questions # <<>>)
        => LET total == MarksAt(multi.all_selected_questions)
           IN  IF max_marks # None /\ total # Val(max_marks)
               THEN /\ Cardinality(MismatchWarnings) = 1
                    /\ WarningsLike(MismatchWarning(Val(max_marks), total)) = MismatchWarnings
               ELSE MismatchWarnings = {}

(***************************************************************************)
(* Properties of the criteria extract returns                               *)
(***************************************************************************)
\* C16: every criteria extract returns has num_questions >= 1 and
\* max_marks >= 1, also for a prompt that states a count or a total of 0.
C16_CountAndMarksPositive ==
    Returned => (Val(criteria.num_questions) >= 1 /\ Val(criteria.max_marks) >= 1)

\* C17: the outcome of every call of extract, the first and any call made
\* after it, is the value of one function of the prompt and of what the
\* fallback model did in that call: two calls with the same prompt and the same
\* model response return identical criteria or both raise, whatever was
\* extracted before.
C17_ExtractorDeterministic ==
    pc = "done"
        => /\ criteria = OutcomeOf(prompt, llm).criteria
           /\ result = OutcomeOf(prompt, llm).result

\* A later call that consulted the model has returned.
C17_Witness == earlier /\ Returned /\ llm.kind = "response"

(***************************************************************************)
(* Properties of FilteringReport.generate_report                            *)
(***************************************************************************)
\* The items the lines of the given kind show, in the order of the text.
RECURSIVE ItemsOf(_, _)
ItemsOf(kind, text) ==
    IF text = <<>> THEN <<>>
    ELSE (IF Head(text).line = kind THEN <<Head(text).item>> ELSE <<>>)
             \o ItemsOf(kind, Tail(text))

\* The text shows the fields as they are now (the final count with the steps).
ShowsFields(text, r) ==
    /\ ItemsOf("initial", text) = <<r.initial_count>>
    /\ ItemsOf("step", text) = r.steps
    /\ ItemsOf("final", text) = IF r.steps # <<>> THEN <<r.final_count>> ELSE <<>>
    /\ ItemsOf("warning", text) = r.warnings
    /\ ItemsOf("suggestion", text) = r.suggestions

PassingAllBut(f) ==
    filter_questions_with_report(all_questions, [criteria EXCEPT ![f] = None]).filtered

\* C19: the count stated in the suggestion for a field is the number of stored
\* questions that pass the filter of every other field the criteria set, by
\* the filter's own matching rule, and so it is never smaller than the number
\* of questions that pass the whole filter.
C19_SuggestionCountsFilterRule ==
    TooFewPassed
        => \A i \in 1..Len(report.suggestions) :
               LET sg == report.suggestions[i]
               IN  /\ sg.count = Len(PassingAllBut(sg.field))
                   /\ sg.count >= Len(filter_questions_with_report(all_questions, criteria).filtered)

(***************************************************************************)
(* Properties of the marks target of generate_multi_type_exam               *)
(***************************************************************************)
\* The counts of the breakdown from entry number i on, summed.
RECURSIVE CountsFrom(_, _)
CountsFrom(bd, i) == IF i > Len(bd) THEN 0 ELSE bd[i].c + CountsFrom(bd, i + 1)

\* C20: with max_marks set, the target computed for a type whose questions are
\* selected is floor(remaining_marks * count / R), remaining_marks being
\* max_marks less the marks selected so far and R the sum of the counts of this
\* type and of the types not yet processed: a type processed before, selected
\* or skipped, does not count in R.
C20_TargetOverTypesNotYetProcessed ==
    [][(TypeSelected /\ max_marks # None)
          => LET remaining_marks == Val(max_marks) - multi.total_marks_used
                 R == CountsFrom(criteria.question_types_breakdown, multi.i)
             IN  /\ R > 0
                 /\ multi'.target = Some((remaining_marks * TypeNow.c) \div R)]_vars

(***************************************************************************)
(* Properties of parse_multiple_question_types                              *)
(***************************************************************************)
\* The phrases "<count> <type>" of p that the primary pattern matches, or the
\* fallback patterns when the primary pattern matches nowhere, as the positions
\* of their counts.
PrimaryPhrases(p) == {i \in 1..Len(p) : PrimaryMatchAt(p, i)}

FallbackPhrases(p) == {i \in 1..Len(p) : BareMatchAt(p, i)}

MatchedPhrases(p) == IF PrimaryPhrases(p) # {} THEN PrimaryPhrases(p) ELSE FallbackPhrases(p)

PhrasesOfType(p, ty) == {i \in MatchedPhrases(p) : type_mappings(p[i + 1]) = ty}

RECURSIVE SumOfPhrases(_, _)
SumOfPhrases(p, S) ==
    IF S = {} THEN 0
    ELSE LET i == CHOOSE j \in S : TRUE IN IntOf(p[i]) + SumOfPhrases(p, S \ {i})

CanonicalTypes == {"mcq", "msq", "tf", "fill"}

CountOfType(bd, ty) ==
    IF HasType(bd, ty) THEN bd[CHOOSE k \in 1..Len(bd) : bd[k].t = ty].c ELSE 0

\* C21: when two or more matched phrases of a prompt normalise to the same
\* type, the count the multi-type parser returns for the type is the sum of
\* their counts, for matches of the primary pattern and of the fallback
\* patterns alike.
C21_DuplicateTypesAccumulate ==
    pc = "cascade"
        => LET p == LowerSeq(prompt)
               bd == IF criteria.question_types_breakdown = None THEN <<>>
                     ELSE criteria.question_types_breakdown
           IN  \A ty \in CanonicalTypes :
                   Cardinality(PhrasesOfType(p, ty)) >= 2
                       => CountOfType(bd, ty) = SumOfPhrases(p, PhrasesOfType(p, ty))

(***************************************************************************)
(* Properties of the exact regime                                           *)
(***************************************************************************)
\* The call has passed lines 63-68: the pool holds enough questions and
\* max_marks counts as set.
AtExactRegime == pc = "select" /\ Len(pool) >= num_questions /\ Truthy(max_marks)

WithinDpBounds ==
    /\ Len(pool) <= DpMaxPool
    /\ num_questions <= DpMaxCount
    /\ Val(max_marks) <= DpMaxTarget

FromExactRegime ==
    /\ Selected
    /\ Len(pool) >= num_questions
    /\ Truthy(max_marks)
    /\ WithinDpBounds
    /\ ExactExists(pool, num_questions, Val(max_marks))

\* The marks of the first k items of sel.
MarksBefore(sel, k) == MarksOf(pool, SubSeq(sel, 1, k - 1))

\* Some num positions after position i carry exactly the marks sum.
ExistsAfter(i, num, sum) ==
    \E S \in SUBSET ((i + 1)..Len(pool)) :
        Cardinality(S) = num /\ MarksOf(pool, Ascending(S)) = sum

\* sel is a combination for the target that takes a position only when the
\* positions after it hold no combination for the count and the sum that remain.
TakesLatest(sel) ==
    /\ Len(sel) = num_questions
    /\ MarksOf(pool, sel) = Val(max_marks)
    /\ \A k \in 1..Len(sel) :
           /\ k > 1 => sel[k - 1] < sel[k]
           /\ ~ExistsAfter(sel[k], Len(sel) - k + 1, Val(max_marks) - MarksBefore(sel, k))

\* C23: the result of find_exact_subset_dp is fixed by the pool, the count and
\* the target: it is the one combination in strictly increasing position that
\* takes position i only if the positions after i hold no exact combination
\* for the remaining count and the remaining sum (skip is tried before take).
C23_DpTakesLatestPositions ==
    FromExactRegime
        => /\ TakesLatest(selection)
           /\ \A s \in Samples(pool, num_questions) : TakesLatest(s) => s = selection

\* The exact regime chose between two combinations.
C23_Witness ==
    /\ FromExactRegime
    /\ num_questions >= 1
    /\ \E s \in Samples(pool, num_questions) :
           s # selection /\ MarksOf(pool, s) = Val(max_marks)

(***************************************************************************)
(* Properties of the two sampling loops                                     *)
(***************************************************************************)
InLoop == pc \in {"search", "marks_search"}

LoopReturned == pc \in {"selected", "marks_returned"}

\* An iteration of either loop has drawn its sample: one more try is done, or
\* the loop is left on a draw that hit the target.
LoopDraw ==
    /\ InLoop
    /\ \/ tries' = tries + 1
       \/ LoopReturned' /\ least_diff' = Some(0)

\* The draws the loop at pc may make.
DrawsAllowed ==
    IF pc = "search" THEN Min(1000, 10 * Len(pool)) ELSE Min(100, Len(pool))

\* s holds num_questions pairwise distinct positions of the pool.
IsSample(s) ==
    /\ Len(s) = num_questions
    /\ Distinct(s)
    /\ \A i \in 1..Len(s) : s[i] \in 1..Len(pool)

SingleTypeSelected ==
    /\ Selected
    /\ result = "returned"
    /\ criteria.question_types_breakdown = None

ActiveFilters == {i \in 1..Len(filter_fields) : criteria[filter_fields[i]] # None}

\* C25: in the single-type path a non-empty selection holds exactly
\* num_questions questions from pairwise distinct positions of the filtered
\* pool, and so every selected question passes the filter of every field the
\* criteria set, whichever regime selected it.
C25_SelectionFromFilteredPool ==
    (SingleTypeSelected /\ selection # <<>>)
        => /\ Len(selection) = num_questions
           /\ Distinct(selection)
           /\ \A k \in 1..Len(selection) :
                  /\ selection[k] \in 1..Len(pool)
                  /\ \A i \in ActiveFilters : Passes(pool[selection[k]], criteria, filter_fields[i])

\* A selection from a pool the filter has taken a question out of.
C25_Witness ==
    /\ SingleTypeSelected
    /\ selection # <<>>
    /\ ActiveFilters # {}
    /\ Len(pool) < Len(all_questions)

(***************************************************************************)
(* Properties of what generate_multi_type_exam has selected                 *)
(***************************************************************************)
\* The multi-type run is over and every type of the breakdown was processed
\* (no exception ended the loop).
AllTypesProcessed == MultiTypeRunDone /\ multi.i > Len(Breakdown)

\* The selected questions whose question_type is ty.
SelectedWithType(ty) ==
    {k \in 1..Len(multi.all_selected_questions) :
        LET q == all_questions[multi.all_selected_questions[k]]
        IN  q.question_type # Null /\ Lower(q.question_type) = Lower(ty)}

\* The types that were not skipped: they had at least their count of candidates.
NotSkipped == {i \in 1..Len(Breakdown) : Cardinality(CandidatesOf(Breakdown[i].t)) >= Breakdown[i].c}

RECURSIVE SumOfCounts(_)
SumOfCounts(S) ==
    IF S = {} THEN 0
    ELSE LET i == CHOOSE j \in S : TRUE IN Breakdown[i].c + SumOfCounts(S \ {i})

\* C26: after every type has been processed, the number of selected questions
\* of a type is 0 when the type was skipped and its required count otherwise;
\* no position of the pool is selected twice; every selected question has the
\* type it was selected for and agrees with the subject, chapter, difficulty
\* and bloom_level the criteria set; and the report's final_count is the number
\* of selected questions, the sum of the counts of the types not skipped.
C26_MultiTypeSelectionCounts ==
    AllTypesProcessed
        => /\ \A i \in 1..Len(Breakdown) :
                  Cardinality(SelectedWithType(Breakdown[i].t))
                      = IF i \in NotSkipped THEN Breakdown[i].c ELSE 0
           /\ Distinct(multi.all_selected_questions)
           /\ \A k \in 1..Len(multi.all_selected_questions) :
                  \E i \in 1..Len(Breakdown) :
                      multi.all_selected_questions[k] \in CandidatesOf(Breakdown[i].t)
           /\ report.final_count = Len(multi.all_selected_questions)
           /\ report.final_count = SumOfCounts(NotSkipped)

\* One type was skipped and another contributed its questions.
C26_Witness ==
    /\ AllTypesProcessed
    /\ multi.all_selected_questions # <<>>
    /\ NotSkipped # 1..Len(Breakdown)

(***************************************************************************)
(* The steps filter_questions_with_report records                           *)
(***************************************************************************)
\* The single-type path has filtered the pool: its report holds the steps.
Filtered ==
    \/ pc = "select" /\ criteria.question_types_breakdown = None
    \/ TooFewPassed

\* The filter fields the criteria set, in the order of filter_fields.
ActiveFields == LET Set(f) == criteria[f] # None IN SelectSeq(filter_fields, Set)

\* C27: the filter goes through subject, chapter, question_type, difficulty,
\* bloom_level, positive_marks in this order and records one step for each of
\* them the criteria set and none for the others; the first step's before is
\* initial_count, the size of the pool; a step's after is at most its before; a
\* later step's before is the after of the step before it; and the list
\* returned has the length of the last step's after, or of the pool when no
\* filter is active.
C27_FilterStepsChain ==
    Filtered
        => LET steps == report.steps
               returned == Len(filter_questions_with_report(all_questions, criteria).filtered)
           IN  /\ Len(steps) = Len(ActiveFields)
               /\ \A i \in 1..Len(steps) :
                      /\ steps[i].description.field = ActiveFields[i]
                      /\ steps[i].after <= steps[i].before
                      /\ steps[i].before = IF i = 1 THEN report.initial_count
                                           ELSE steps[i - 1].after
               /\ report.initial_count = Len(all_questions)
               /\ returned = IF steps = <<>> THEN Len(all_questions)
                             ELSE steps[Len(steps)].after
               /\ report.final_count = returned
               /\ pc = "select" => Len(pool) = returned

\* Two filters were active and each of them took questions out.
C27_Witness ==
    /\ Filtered
    /\ Len(report.steps) >= 2
    /\ report.steps[1].after < report.steps[1].before
    /\ report.steps[2].after < report.steps[2].before

(***************************************************************************)
(* The report generate_exam_paper returns from the multi-type path          *)
(***************************************************************************)
\* The report generate_exam_paper made before it entered
\* generate_multi_type_exam (lines 22-29).
ParentBefore == set_initial_count(FilteringReport, Len(all_questions))

\* The step in which generate_multi_type_exam returns its report and
\* generate_exam_paper merges it.
MergeStep == TypesDone /\ pc' = "gen_done"

IsPrefix(sq, tq) == Len(sq) <= Len(tq) /\ SubSeq(tq, 1, Len(sq)) = sq

StepOfRequest == ~(pc = "gen_done" /\ pc' = "done")

\* The request has fetched: it is past line 28.
PastFetch == pc # "done"

\* The selector is running on the list it was handed.
Selecting == pc \in {"select", "search"}

\* C29: no step of a request after its fetch changes the rows it fetched, and
\* none changes an entry of the cache: the rows a request holds, and those
\* another caller holds meanwhile, stay the rows of the cache entry they came
\* from, in length, order and content, through every step of this and of the
\* next request; the criteria are as parse_prompt_with_hybrid returned them
\* until the request ends, and the list handed to the selector is the same
\* while the selector runs.
C29_PoolAndCriteriaReadOnly ==
    /\ [][(PastFetch /\ StepOfRequest) => all_questions' = all_questions]_vars
    /\ [][\A i \in 1..Len(cache) :
              /\ Cached(cache', cache[i].key)
              /\ EntryOf(cache', cache[i].key).value = cache[i].value]_vars
    /\ []((PastFetch /\ Cached(cache, KeyOfRun))
              => all_questions = EntryOf(cache, KeyOfRun).value)
    /\ [](held # None
              => /\ Cached(cache, Val(held).key)
                 /\ Val(held).rows = EntryOf(cache, Val(held).key).value)
    /\ [][StepOfRequest => criteria' = criteria]_vars
    /\ [][(Selecting /\ Selecting') => pool' = pool]_vars

\* The rows of one cache entry are held by a second request that has selected
\* from them and by another caller at the same time.
C29_Witness ==
    /\ earlier
    /\ pc = "gen_done"
    /\ selection # <<>>
    /\ held # None
    /\ Val(held).key = KeyOfRun
    /\ all_questions # <<>>
    /\ Val(held).rows = all_questions

(***************************************************************************)
(* What the cache of fetch_questions_from_supabase serves                   *)
(***************************************************************************)
\* The step in which the request's call of the fetch returns.
FetchReturns == AtFetch /\ pc' # pc

\* C30: the cache holds only what a query answered; a call whose query fails
\* gives an empty pool to its caller alone, and a call with the same arguments
\* made when the storage answers gets the stored questions, never the empty
\* result of a failed call.
C30_CacheHoldsOnlyAnswers ==
    /\ [](\A i \in 1..Len(cache) : ~cache[i].failed)
    /\ [][(FetchReturns /\ storage.client /\ storage.up)
              => all_questions' = query(storage.table, KeyOfRun)]_vars

=============================================================================
